---- MODULE Spec2Model ----
(***************************************************************************)
(* NextDevServer (src/unnamed/part_000): the handler execution model       *)
(* (handleApiRoute, handleStreamingRequest, the buffered and streaming     *)
(* mock responses, executeApiHandler) and the transform cache              *)
(* (transformAndServe).                                                    *)
(*                                                                         *)
(* Strings are sequences of tokens, so that concatenation is \o and the    *)
(* empty string is << >>.                                                  *)
(***************************************************************************)
EXTENDS Integers, Sequences, FiniteSets, TLC

VARIABLES
    pc,         \* position of handleApiRoute / handleStreamingRequest
    mode,       \* "none" | "buffered" | "streaming": which entry point runs
    settles,    \* whether the promise returned by the handler ever settles
    res,        \* the closure state of the mock response
    log,        \* callbacks invoked so far: onStart / onChunk / onEnd
    response,   \* ResponseData returned by handleApiRoute, or NoResponse
    calls,      \* number of calls the handler has made on res
    byteCalls,  \* history: number of byte-producing calls made on res
    termCalls,  \* history: number of terminal calls made on res
    thrown      \* history: message of the error the handler threw, or << >>

apiVars == <<pc, mode, settles, res, log, response, calls, byteCalls, termCalls,
             thrown>>

VARIABLES
    files,       \* the virtual filesystem: path -> current content
    cache,       \* transformCache: the Map, as its entries in key order
    inflight,    \* transformAndServe calls suspended at await transformCode:
                 \* <<path, content read>> -> number of such calls
    lastDone,    \* the transformAndServe call that returned last
    prevDone,    \* history: the call that returned before lastDone
    insertOrder, \* history: the cached paths, in the order they entered
    hist,        \* history: per cached path, the content its entry was
                 \* compiled from and the content that entry overwrote
    changedSince,\* history: cached paths whose file was written since stored
    lastEvicted  \* history: what the last eviction removed

cacheVars == <<files, cache, inflight, lastDone, prevDone, insertOrder, hist,
               changedSince, lastEvicted>>

VARIABLES
    rh          \* handleAppRouteHandler: the request and its response

appRouteVars == <<rh>>

VARIABLES
    optionsEnv, \* this.options.env
    iso         \* the API requests in flight: request -> its position, its
                \* mock response, its process.env and the calls it made

isoVars == <<optionsEnv, iso>>

VARIABLES
    fs,          \* the virtual filesystem: its nodes (files and directories)
    listing,     \* the order in which readdirSync returns entry names
    useAppRouter,\* this.useAppRouter
    route,       \* the last pathname resolved and what each resolver returned
    unreadable   \* the directories whose listing fails (readdirSync throws)

routeVars == <<fs, listing, useAppRouter, route, unreadable>>

VARIABLES
    envs,       \* this.options.env of each of two servers, as its entries
    scripts     \* the env script each of the two servers generated last

envVars == <<envs, scripts>>

VARIABLES
    watchers,       \* the watchers registered with the virtual filesystem
    watcherCleanup, \* this.watcherCleanup: the startWatching call whose
                    \* watchers it closes, 0 when null
    rawEvents,      \* history: the events the filesystem delivered
    emitted         \* the hmr-update events emitted, in order

hmrVars == <<watchers, watcherCleanup, rawEvents, emitted>>

VARIABLES
    twin        \* a buffered mock response that is given the same calls as
                \* the streaming one in res

pairVars == <<twin>>

otherVars == <<appRouteVars, isoVars, routeVars, envVars, hmrVars, pairVars>>

vars == <<pc, mode, settles, res, log, response, calls, byteCalls, termCalls,
          thrown, rh, optionsEnv, iso, fs, listing, useAppRouter, route,
          unreadable,
          files, cache, inflight, lastDone, prevDone, insertOrder, hist,
          changedSince, lastEvicted, envs, scripts, watchers, watcherCleanup,
          rawEvents, emitted, twin>>

----------------------------------------------------------------------------
(* Bounds *)

MaxCalls == 3

\* transformAndServe evicts above 500 entries; the model scales the limit
CacheLimit == 2

NumPaths == 3

MaxInFlight == 2

----------------------------------------------------------------------------
(* Inputs of the handler's calls *)

Chunks == {<<"a">>, <<"b">>}

\* end(data?): undefined and '' are both falsy and are both << >> here
EndArgs == {<< >>, <<"a">>}

Objs == {"obj"}

StatusArgs == {404}

RedirectUrls == {<< >>, <<"/x">>}

ErrorMessages == {<<"boom">>}

NoResponse == [statusCode |-> 0]

JSONStringify(o) == <<"{", o, "}">>

ErrorJson(msg) == <<"{", "error", ":">> \o msg \o <<"}">>

SetHeader(h, name, value) == (name :> value) @@ h

----------------------------------------------------------------------------
(* The callback log of handleStreamingRequest *)

StartEv(code, msg, h) ==
    [type |-> "start", statusCode |-> code, statusMessage |-> msg,
     headers |-> h, data |-> << >>]

ChunkEv(d) ==
    [type |-> "chunk", statusCode |-> 0, statusMessage |-> "",
     headers |-> << >>, data |-> d]

EndEv ==
    [type |-> "end", statusCode |-> 0, statusMessage |-> "",
     headers |-> << >>, data |-> << >>]

----------------------------------------------------------------------------
(* createMockResponse / createStreamingMockResponse: the closure state.   *)
(* headersSent is the closure variable, headersSentProp the property       *)
(* `headersSent` of the returned object, which is what a handler reads.    *)

NewResponse ==
    [statusCode |-> 200, statusMessage |-> "OK", headers |-> << >>,
     responseBody |-> << >>, ended |-> FALSE, headersSent |-> FALSE,
     headersSentProp |-> FALSE, resolved |-> 0]

\* The operations below take and return st = [res, log].

(* --- buffered: createMockResponse --- *)

markEndedAlways(st) ==
    [st EXCEPT !.res.ended = TRUE, !.res.resolved = @ + 1]

markEnded(st) ==
    IF ~st.res.ended
    THEN [st EXCEPT !.res.ended = TRUE, !.res.resolved = @ + 1]
    ELSE st

status(st, code) == [st EXCEPT !.res.statusCode = code]

setHeader(st, name, value) ==
    [st EXCEPT !.res.headers = SetHeader(@, name, value)]

write(st, chunk) ==
    LET s1 == IF ~st.res.headersSent
              THEN [st EXCEPT !.res.headersSent = TRUE,
                              !.res.headersSentProp = TRUE]
              ELSE st
    IN [s1 EXCEPT !.res.responseBody = @ \o chunk]

json(st, o) ==
    markEnded([st EXCEPT
        !.res.headers = SetHeader(@, "Content-Type", <<"application/json">>),
        !.res.responseBody = JSONStringify(o)])

sendString(st, data) ==
    markEnded([st EXCEPT !.res.responseBody = data])

end(st, data) ==
    markEnded(IF data # << >>
              THEN [st EXCEPT !.res.responseBody = @ \o data]
              ELSE st)

redirectStatus(st, code, url) ==
    markEnded([st EXCEPT
        !.res.statusCode = code,
        !.res.headers = SetHeader(@, "Location",
                                  IF url # << >> THEN url ELSE <<"/">>)])

redirectUrl(st, url) ==
    markEnded([st EXCEPT
        !.res.statusCode = 307,
        !.res.headers = SetHeader(@, "Location", url)])

toResponse(r) ==
    [statusCode |-> r.statusCode, statusMessage |-> r.statusMessage,
     headers |-> SetHeader(r.headers, "Content-Length", Len(r.responseBody)),
     body |-> r.responseBody]

(* --- streaming: createStreamingMockResponse --- *)

sendHeaders(st) ==
    IF ~st.res.headersSent
    THEN [res |-> [st.res EXCEPT !.headersSent = TRUE],
          log |-> Append(st.log, StartEv(st.res.statusCode,
                                         st.res.statusMessage,
                                         st.res.headers))]
    ELSE st

streamMarkEnded(st) ==
    IF ~st.res.ended
    THEN LET s1 == sendHeaders(st)
         IN [res |-> [s1.res EXCEPT !.ended = TRUE, !.resolved = @ + 1],
             log |-> Append(s1.log, EndEv)]
    ELSE st

onChunk(st, d) == [st EXCEPT !.log = Append(@, ChunkEv(d))]

streamWrite(st, chunk) == onChunk(sendHeaders(st), chunk)

streamJson(st, o) ==
    LET s0 == [st EXCEPT !.res.headers =
                   SetHeader(@, "Content-Type", <<"application/json">>)]
    IN streamMarkEnded(onChunk(sendHeaders(s0), JSONStringify(o)))

streamSendString(st, data) ==
    streamMarkEnded(onChunk(sendHeaders(st), data))

streamEnd(st, data) ==
    streamMarkEnded(IF data # << >>
                    THEN onChunk(sendHeaders(st), data)
                    ELSE st)

streamRedirectStatus(st, code, url) ==
    streamMarkEnded([st EXCEPT
        !.res.statusCode = code,
        !.res.headers = SetHeader(@, "Location",
                                  IF url # << >> THEN url ELSE <<"/">>)])

streamRedirectUrl(st, url) ==
    streamMarkEnded([st EXCEPT
        !.res.statusCode = 307,
        !.res.headers = SetHeader(@, "Location", url)])

----------------------------------------------------------------------------
(* Initial state: the server is constructed, no request has been made.     *)

Paths == 1..NumPaths

Contents == {"A", "B"}

\* the files that are edited while the server runs
Editable == {1, 2}

InitApi ==
    /\ pc = "idle"
    /\ mode = "none"
    /\ settles = TRUE
    /\ res = NewResponse
    /\ log = << >>
    /\ response = NoResponse
    /\ calls = 0
    /\ byteCalls = 0
    /\ termCalls = 0
    /\ thrown = << >>

----------------------------------------------------------------------------
(* handleApiRoute (buffered) and handleStreamingRequest (streaming)        *)

JsonHeaders == ("Content-Type" :> <<"application/json">>)

NotFoundResponse(msg) ==
    [statusCode |-> 404, statusMessage |-> "Not Found",
     headers |-> JsonHeaders, body |-> ErrorJson(msg)]

\* a catch block that replies with what the handler had written so far
FaultResponseFromRes(msg) ==
    [statusCode |-> 500, statusMessage |-> "Internal Server Error",
     headers |-> JsonHeaders, body |-> res.responseBody \o ErrorJson(msg)]

FaultResponse(msg) ==
    [statusCode |-> 500, statusMessage |-> "Internal Server Error",
     headers |-> JsonHeaders, body |-> ErrorJson(msg)]

\* onStart(code, ...); onChunk(JSON.stringify({ error })); onEnd()
Reply(l, code, statusMsg, msg) ==
    l \o <<StartEv(code, statusMsg, JsonHeaders), ChunkEv(ErrorJson(msg)),
           EndEv>>

\* the catch block of handleApiRoute / handleStreamingRequest
Catch(msg) ==
    /\ pc' = "done"
    /\ IF mode = "buffered"
       THEN /\ response' = FaultResponse(msg)
            /\ log' = log
       ELSE /\ log' = Reply(log, 500, "Internal Server Error", msg)
            /\ response' = response

\* handleStreamingRequest: the pathname does not start with /api/
StreamNotApi ==
    /\ pc = "idle"
    /\ pc' = "replied"
    /\ mode' = "streaming"
    /\ log' = Reply(log, 404, "Not Found", <<"Not found">>)
    /\ UNCHANGED <<settles, res, response, calls, byteCalls, termCalls>>
    /\ UNCHANGED thrown
    /\ UNCHANGED <<cacheVars, otherVars>>

\* resolveApiFile returns null
\* the reply of handleApiRoute when resolveApiFile finds no file
ApiRouteNotFound == NotFoundResponse(<<"API route not found">>)

ApiFileNotFound(m) ==
    /\ pc = "idle"
    /\ pc' = "replied"
    /\ mode' = m
    /\ IF m = "buffered"
       THEN /\ response' = ApiRouteNotFound
            /\ log' = log
       ELSE /\ log' = Reply(log, 404, "Not Found", <<"API route not found">>)
            /\ response' = response
    /\ UNCHANGED <<settles, res, calls, byteCalls, termCalls>>
    /\ UNCHANGED thrown
    /\ UNCHANGED <<cacheVars, otherVars>>

\* readFileSync or transformApiHandler throws: the catch block replies
TransformApiHandlerFails(m, msg) ==
    /\ pc = "idle"
    /\ pc' = "replied"
    /\ mode' = m
    /\ IF m = "buffered"
       THEN /\ response' = FaultResponse(msg)
            /\ log' = log
       ELSE /\ log' = Reply(log, 500, "Internal Server Error", msg)
            /\ response' = response
    /\ UNCHANGED <<settles, res, calls, byteCalls, termCalls>>
    /\ UNCHANGED thrown
    /\ UNCHANGED <<cacheVars, otherVars>>

\* createMockRequest, create*MockResponse, executeApiHandler calls handler
InvokeHandler(m, s) ==
    /\ pc = "idle"
    /\ pc' = "handler"
    /\ mode' = m
    /\ settles' = s
    /\ res' = NewResponse
    /\ UNCHANGED <<log, response, calls, byteCalls, termCalls>>
    /\ UNCHANGED thrown
    /\ UNCHANGED <<cacheVars, otherVars>>

\* executeApiHandler returns: the handler returned, or its promise resolved
HandlerReturns ==
    /\ pc = "handler"
    /\ settles
    /\ IF res.ended
       THEN /\ pc' = "done"
            /\ IF mode = "buffered"
               THEN /\ response' = toResponse(res)
                    /\ res' = [res EXCEPT !.headers = toResponse(res).headers]
               ELSE UNCHANGED <<response, res>>
       ELSE /\ pc' = "waiting"
            /\ UNCHANGED <<response, res>>
    /\ UNCHANGED <<mode, settles, log, calls, byteCalls, termCalls>>
    /\ UNCHANGED thrown
    /\ UNCHANGED <<cacheVars, otherVars>>

\* executeApiHandler rethrows: the handler threw, or its promise rejected
HandlerThrows(msg) ==
    /\ pc = "handler"
    /\ settles
    /\ Catch(msg)
    /\ thrown' = msg
    /\ UNCHANGED <<mode, settles, res, calls, byteCalls, termCalls>>
    /\ UNCHANGED <<cacheVars, otherVars>>

\* Promise.race: res.waitForEnd() resolves first
WaitForEndResolves ==
    /\ pc = "waiting"
    /\ res.ended
    /\ pc' = "done"
    /\ IF mode = "buffered"
       THEN /\ response' = toResponse(res)
            /\ res' = [res EXCEPT !.headers = toResponse(res).headers]
       ELSE UNCHANGED <<response, res>>
    /\ UNCHANGED <<mode, settles, log, calls, byteCalls, termCalls>>
    /\ UNCHANGED thrown
    /\ UNCHANGED <<cacheVars, otherVars>>

\* Promise.race: the 30 s timer rejects first
Timeout ==
    /\ pc = "waiting"
    /\ ~res.ended
    /\ Catch(<<"API handler timeout">>)
    /\ UNCHANGED <<mode, settles, res, calls, byteCalls, termCalls>>
    /\ UNCHANGED thrown
    /\ UNCHANGED <<cacheVars, otherVars>>

----------------------------------------------------------------------------
(* The handler's calls on res.  The handler's code runs inside the call of *)
(* executeApiHandler and in callbacks that outlive it, so it may call res  *)
(* while the request waits and after the request has completed.            *)

HandlerCall(buffered, streaming, isByte, isTerm) ==
    /\ pc \in {"handler", "waiting", "done"}
    /\ calls < MaxCalls
    /\ LET st == IF mode = "buffered" THEN buffered ELSE streaming
       IN /\ res' = st.res
          /\ log' = st.log
    /\ calls' = calls + 1
    /\ byteCalls' = byteCalls + (IF isByte THEN 1 ELSE 0)
    /\ termCalls' = termCalls + (IF isTerm THEN 1 ELSE 0)
    /\ UNCHANGED <<pc, mode, settles, response>>
    /\ UNCHANGED thrown
    /\ UNCHANGED <<cacheVars, otherVars>>

St == [res |-> res, log |-> log]

CallStatus ==
    \E code \in StatusArgs :
        HandlerCall(status(St, code), status(St, code), FALSE, FALSE)

CallSetHeader ==
    HandlerCall(setHeader(St, "X-Test", <<"v">>),
                setHeader(St, "X-Test", <<"v">>), FALSE, FALSE)

CallWrite ==
    \E chunk \in Chunks :
        HandlerCall(write(St, chunk), streamWrite(St, chunk), TRUE, FALSE)

CallJson ==
    \E o \in Objs :
        HandlerCall(json(St, o), streamJson(St, o), TRUE, TRUE)

\* send(data) with typeof data === 'object' is json(data)
CallSend ==
    \/ \E o \in Objs :
        HandlerCall(json(St, o), streamJson(St, o), TRUE, TRUE)
    \/ \E data \in Chunks :
        HandlerCall(sendString(St, data), streamSendString(St, data),
                    TRUE, TRUE)

CallEnd ==
    \E data \in EndArgs :
        HandlerCall(end(St, data), streamEnd(St, data), data # << >>, TRUE)

CallRedirect ==
    \/ \E url \in RedirectUrls :
        HandlerCall(redirectStatus(St, 301, url),
                    streamRedirectStatus(St, 301, url), FALSE, TRUE)
    \/ HandlerCall(redirectUrl(St, <<"/x">>),
                   streamRedirectUrl(St, <<"/x">>), FALSE, TRUE)

Modes == {"buffered", "streaming"}

NextApi ==
    \/ StreamNotApi
    \/ \E m \in Modes : ApiFileNotFound(m)
    \/ \E m \in Modes, msg \in ErrorMessages : TransformApiHandlerFails(m, msg)
    \/ \E m \in Modes, s \in BOOLEAN : InvokeHandler(m, s)
    \/ HandlerReturns
    \/ \E msg \in ErrorMessages : HandlerThrows(msg)
    \/ WaitForEndResolves
    \/ Timeout
    \/ CallStatus
    \/ CallSetHeader
    \/ CallWrite
    \/ CallJson
    \/ CallSend
    \/ CallEnd
    \/ CallRedirect

----------------------------------------------------------------------------
(* The transform cache: transformAndServe                                  *)

\* utils/hash simpleHash: a content hash, equal exactly for equal contents
simpleHash(content) == <<"hash", content>>

\* transformCode: the compiled module of a source text under a file name
transformCode(content, filePath) == <<"compiled", filePath, content>>

TransformErrors == {"esbuild not available"}

NoEntry == [key |-> 0]

Keys(c) == {c[i].key : i \in 1..Len(c)}

\* Map.get
MapGet(c, k) ==
    IF k \in Keys(c)
    THEN c[CHOOSE i \in 1..Len(c) : c[i].key = k]
    ELSE NoEntry

\* Map.set: a present key keeps its position, a new key goes last
MapSetMovesToEnd(c, k, v) ==
    Append(SelectSeq(c, LAMBDA e : e.key # k),
           [key |-> k, code |-> v.code, hash |-> v.hash])

MapSetKeepsOld(c, k, v) ==
    IF k \in Keys(c)
    THEN c
    ELSE Append(c, [key |-> k, code |-> v.code, hash |-> v.hash])

\* a set that becomes visible half done: the entry of a present key gets
\* the new code while it still holds the hash stored before
MapSetCodeBeforeHash(c, k, v) ==
    IF k \in Keys(c)
    THEN [i \in 1..Len(c) |->
            IF c[i].key = k
            THEN [key |-> k, code |-> v.code, hash |-> c[i].hash]
            ELSE c[i]]
    ELSE Append(c, [key |-> k, code |-> v.code, hash |-> v.hash])

MapSet(c, k, v) ==
    IF k \in Keys(c)
    THEN [i \in 1..Len(c) |->
            IF c[i].key = k
            THEN [key |-> k, code |-> v.code, hash |-> v.hash]
            ELSE c[i]]
    ELSE Append(c, [key |-> k, code |-> v.code, hash |-> v.hash])

\* if (size > 500) delete(keys().next().value)
EvictNever(c) == c

Evict(c) == IF Len(c) > CacheLimit THEN Tail(c) ELSE c

\* cached && cached.hash === hash
CacheHitAnyEntry(cached, hash) == cached # NoEntry

CacheHit(cached, hash) == cached # NoEntry /\ cached.hash = hash

JsHeaders(code) ==
    ("Content-Type" :> "application/javascript; charset=utf-8") @@
    ("Content-Length" :> Len(code)) @@
    ("Cache-Control" :> "no-cache") @@
    ("X-Transformed" :> "true")

HitResponse(code) ==
    [statusCode |-> 200, statusMessage |-> "OK",
     headers |-> ("X-Cache" :> "hit") @@ JsHeaders(code),
     body |-> code]

CompiledResponse(code) ==
    [statusCode |-> 200, statusMessage |-> "OK",
     headers |-> JsHeaders(code), body |-> code]

ErrorBody(message) ==
    <<"// Transform Error: ", message, "console.error(", message, ");">>

TransformErrorResponse(message) ==
    [statusCode |-> 200, statusMessage |-> "OK",
     headers |-> ("Content-Type" :> "application/javascript; charset=utf-8")
                 @@ ("X-Transform-Error" :> "true"),
     body |-> ErrorBody(message)]

Reads == {r \in Paths \X Contents : r[1] \in Editable \/ r[2] = "A"}

InFlight == {r \in Reads : inflight[r] > 0}

InFlightCount == Cardinality({<<r, n>> \in Reads \X (1..MaxInFlight) :
                                 n <= inflight[r]})

NoHist == [current |-> "none", previous |-> "none"]

NoDone ==
    [path |-> 0, content |-> "none", outcome |-> "none", fresh |-> FALSE,
     reverted |-> FALSE, response |-> NoResponse]

NoPrev == [path |-> 0, content |-> "none", outcome |-> "none"]

InitCache ==
    /\ files = [p \in Paths |-> "A"]
    /\ cache = << >>
    /\ inflight = [r \in Reads |-> 0]
    /\ lastDone = NoDone
    /\ prevDone = NoPrev
    /\ insertOrder = << >>
    /\ hist = [p \in Paths |-> NoHist]
    /\ changedSince = {}
    /\ lastEvicted = "none"

\* the filesystem collaborator: a file gets a new content
WriteFile(p, c) ==
    /\ p \in Editable
    /\ files[p] # c
    /\ files' = [files EXCEPT ![p] = c]
    /\ changedSince' = changedSince \cup ({p} \cap Keys(cache))
    /\ UNCHANGED <<cache, inflight, lastDone, insertOrder, hist, lastEvicted>>
    /\ UNCHANGED <<apiVars, otherVars>>

\* transformAndServe up to `await this.transformCode(...)`: a cache hit
\* returns at once, a miss suspends with the content and hash it has read
TransformAndServe(p) ==
    /\ InFlightCount < MaxInFlight
    /\ LET content == files[p]
           hash == simpleHash(content)
           cached == MapGet(cache, p)
       IN IF CacheHit(cached, hash)
          THEN /\ lastDone' = [path |-> p, content |-> content,
                               outcome |-> "hit",
                               fresh |-> hist[p].current = content,
                               reverted |-> p \in changedSince,
                               response |-> HitResponse(cached.code)]
               /\ inflight' = inflight
          ELSE /\ inflight' = [inflight EXCEPT ![<<p, content>>] = @ + 1]
               /\ lastDone' = lastDone
    /\ UNCHANGED <<files, cache, insertOrder, hist, changedSince, lastEvicted>>
    /\ UNCHANGED <<apiVars, otherVars>>

\* transformCode resolves: the entry is set, the cache evicts, 200 is returned
TransformResolves(r) ==
    /\ r \in InFlight
    /\ LET path == r[1]
           content == r[2]
           transformed == transformCode(content, path)
           stored == MapSet(cache, path,
                            [code |-> transformed,
                             hash |-> simpleHash(content)])
           after == Evict(stored)
           gone == Keys(stored) \ Keys(after)
       IN /\ cache' = after
          /\ insertOrder' =
                LET o1 == IF path \in Keys(cache)
                          THEN insertOrder
                          ELSE Append(insertOrder, path)
                IN SelectSeq(o1, LAMBDA k : k \notin gone)
          /\ hist' = [p \in Paths |->
                        IF p \in gone THEN NoHist
                        ELSE IF p = path
                        THEN [current |-> content,
                              previous |-> IF hist[p].current = content
                                           THEN hist[p].previous
                                           ELSE hist[p].current]
                        ELSE hist[p]]
          /\ lastEvicted' =
                IF gone = {} THEN lastEvicted
                ELSE IF \E k \in gone : hist[k].previous # "none"
                THEN "rewritten"
                ELSE "written once"
          /\ changedSince' =
                ((changedSince \ {path})
                    \cup (IF files[path] # content THEN {path} ELSE {}))
                \ gone
          /\ lastDone' = [path |-> path, content |-> content,
                          outcome |-> "compiled",
                          fresh |-> FALSE,
                          reverted |-> FALSE,
                          response |-> CompiledResponse(transformed)]
    /\ inflight' = [inflight EXCEPT ![r] = @ - 1]
    /\ UNCHANGED files
    /\ UNCHANGED <<apiVars, otherVars>>

\* transformCode rejects: the catch block returns the substitute script
TransformRejectsCachingError(r, message) ==
    /\ r \in InFlight
    /\ cache' = MapSet(cache, r[1],
                       [code |-> ErrorBody(message),
                        hash |-> simpleHash(r[2])])
    /\ lastDone' = [path |-> r[1], content |-> r[2],
                    outcome |-> "error",
                    fresh |-> FALSE,
                    reverted |-> FALSE,
                    response |-> TransformErrorResponse(message)]
    /\ inflight' = [inflight EXCEPT ![r] = @ - 1]
    /\ UNCHANGED <<files, insertOrder, hist, changedSince, lastEvicted>>
    /\ UNCHANGED <<apiVars, otherVars>>

TransformRejects(r, message) ==
    /\ r \in InFlight
    /\ lastDone' = [path |-> r[1], content |-> r[2],
                    outcome |-> "error",
                    fresh |-> FALSE,
                    reverted |-> FALSE,
                    response |-> TransformErrorResponse(message)]
    /\ inflight' = [inflight EXCEPT ![r] = @ - 1]
    /\ UNCHANGED <<files, cache, insertOrder, hist, changedSince,
                   lastEvicted>>
    /\ UNCHANGED <<apiVars, otherVars>>

\* a step in which a transformAndServe call returns
Returns ==
    \/ lastDone' # lastDone
    \/ \E r \in Reads : inflight'[r] < inflight[r]

\* requests interleave at the await of transformCode
Interleaved(A) == A /\ UNCHANGED prevDone

NextCache ==
    \/ \E p \in Paths, c \in Contents : Interleaved(WriteFile(p, c))
    \/ \E p \in Paths : Interleaved(TransformAndServe(p))
    \/ \E r \in Reads : Interleaved(TransformResolves(r))
    \/ \E r \in Reads, message \in TransformErrors :
          Interleaved(TransformRejects(r, message))

\* one request at a time: a request begins only after the request before
\* it has returned, and the pair of the last two requests is recorded
Sequentially(A) ==
    /\ InFlightCount <= 1
    /\ A
    /\ InFlightCount' <= 1
    /\ prevDone' = IF Returns
                   THEN [path |-> lastDone.path, content |-> lastDone.content,
                         outcome |-> lastDone.outcome]
                   ELSE prevDone

NextCacheSeq ==
    \/ \E p \in Paths, c \in Contents : Sequentially(WriteFile(p, c))
    \/ \E p \in Paths : Sequentially(TransformAndServe(p))
    \/ \E r \in Reads : Sequentially(TransformResolves(r))
    \/ \E r \in Reads, message \in TransformErrors :
          Sequentially(TransformRejects(r, message))

----------------------------------------------------------------------------
(* handleAppRouteHandler: a request served by an App Router route.<ext>    *)

Methods == {"GET", "get", "Get", "POST", "CONSTRUCTOR"}

\* String.prototype.toUpperCase and toLowerCase on the method names
ToUpperCase(m) ==
    CASE m \in {"GET", "get", "Get"} -> "GET"
      [] m \in {"POST", "post"} -> "POST"
      [] m \in {"CONSTRUCTOR", "constructor"} -> "CONSTRUCTOR"

ToLowerCase(m) ==
    CASE m \in {"GET", "get", "Get"} -> "get"
      [] m \in {"POST", "post"} -> "post"
      [] m \in {"CONSTRUCTOR", "constructor"} -> "constructor"

\* what the route file assigns to module.exports: name -> typeof value
ExportNames == {"GET", "get", "POST"}

ExportSets ==
    UNION {[names -> {"function", "object"}] : names \in SUBSET ExportNames}

\* module.exports is an ordinary object ({} at line 881): a property that
\* is not its own is looked up on Object.prototype
ObjectPrototype == ("constructor" :> "function")

\* typeof module.exports[key]
TypeofExport(exps, key) ==
    IF key \in DOMAIN exps THEN exps[key]
    ELSE IF key \in DOMAIN ObjectPrototype THEN ObjectPrototype[key]
    ELSE "undefined"

\* module.exports[methodUpper] || module.exports[methodUpper.toLowerCase()]:
\* the key whose value the code takes as the handler
HandlerKey(exps, method) ==
    IF TypeofExport(exps, ToUpperCase(method)) # "undefined"
    THEN ToUpperCase(method)
    ELSE ToLowerCase(ToUpperCase(method))

\* what an exported handler returns, or that it throws
HandlerResults ==
    {[kind |-> "Response", status |-> 201, text |-> <<"made">>],
     [kind |-> "object", status |-> 0, text |-> <<"obj">>],
     [kind |-> "string", status |-> 0, text |-> <<"plain">>],
     [kind |-> "throw", status |-> 0, text |-> <<"boom">>]}

\* Object(request, ctx) returns its first argument, the Request object
ObjectConstructorResult == [kind |-> "object", status |-> 0, text |-> << >>]

MethodNotAllowed(method) ==
    [statusCode |-> 405, statusMessage |-> "Method Not Allowed",
     headers |-> JsonHeaders,
     body |-> ErrorJson(<<"Method", method, "not allowed">>)]

\* the conversion of the handler's return value (lines 925-957)
ConvertResponse(result) ==
    CASE result.kind = "Response" ->
            [statusCode |-> result.status, statusMessage |-> "OK",
             headers |-> << >>, body |-> result.text]
      [] result.kind = "object" ->
            [statusCode |-> 200, statusMessage |-> "OK",
             headers |-> JsonHeaders, body |-> JSONStringify(result.text)]
      [] result.kind = "string" ->
            [statusCode |-> 200, statusMessage |-> "OK",
             headers |-> ("Content-Type" :> <<"text/plain">>),
             body |-> result.text]
      [] result.kind = "throw" -> FaultResponse(result.text)

\* lines 894-957: the module was evaluated and left exps in module.exports
ServeRouteModule(method, exps, result) ==
    LET key == HandlerKey(exps, method) IN
    IF TypeofExport(exps, key) # "function" THEN MethodNotAllowed(method)
    ELSE IF key \in DOMAIN exps THEN ConvertResponse(result)
    ELSE ConvertResponse(ObjectConstructorResult)

\* readFileSync, transformApiHandler or the evaluation of the module throws
AppRouteModuleFails(method, msg) ==
    /\ rh' = [pc |-> "done", method |-> method, loaded |-> FALSE,
              exports |-> << >>, response |-> FaultResponse(msg)]
    /\ UNCHANGED <<apiVars, cacheVars, isoVars, routeVars, envVars, hmrVars,
                   pairVars>>

\* the module was evaluated; the method's handler is looked up and called
AppRouteRequest(method, exps, result) ==
    /\ rh' = [pc |-> "done", method |-> method, loaded |-> TRUE,
              exports |-> exps,
              response |-> ServeRouteModule(method, exps, result)]
    /\ UNCHANGED <<apiVars, cacheVars, isoVars, routeVars, envVars, hmrVars,
                   pairVars>>

NextAppRoute ==
    \/ \E method \in Methods, msg \in ErrorMessages :
            AppRouteModuleFails(method, msg)
    \/ \E method \in Methods, exps \in ExportSets, result \in HandlerResults :
            AppRouteRequest(method, exps, result)

----------------------------------------------------------------------------
(* Several flat API requests in flight.  Each call of handleApiRoute       *)
(* creates its own mock response (line 711) and each call of               *)
(* executeApiHandler its own module scope and process object (1339-1350).  *)

MaxIsoCalls == 2

Requests == {"r1", "r2"}

ServerEnvValues == {"s0", "s1"}

\* the calls a handler makes on its res and on its process.env
HandlerOps == {"status", "writeEnv", "end", "setEnv"}

IdleRequest ==
    [pc |-> "idle", res |-> NewResponse, env |-> << >>, env0 |-> << >>,
     made |-> << >>, fault |-> << >>, response |-> NoResponse]

InitIso ==
    /\ optionsEnv = ("K" :> "s0")
    /\ iso = [i \in Requests |-> IdleRequest]

\* this.options.env after a handler assigned process.env[key] = value, where
\* process.env is that handler's shared reference to this.options.env
OptionsEnvAfterShared(env, key, value) == [env EXCEPT ![key] = value]

\* this.options.env after a handler assigned process.env[key] = value:
\* process.env is a spread copy made for the call (line 1345)
OptionsEnvAfter(env, key, value) == env

\* one call of the handler of request i on its own res and process.env
ApplyOp(i, st, op) ==
    LET rl == [res |-> st.res, log |-> << >>] IN
    CASE op = "status" -> [st EXCEPT !.res = status(rl, 404).res]
      [] op = "writeEnv" -> [st EXCEPT !.res = write(rl, <<st.env["K"]>>).res]
      [] op = "end" -> [st EXCEPT !.res = end(rl, << >>).res]
      [] op = "setEnv" -> [st EXCEPT !.env = [@ EXCEPT !["K"] = i]]

\* setEnv(key, value) of the server
ServerSetEnv(value) ==
    /\ optionsEnv["K"] # value
    /\ optionsEnv' = [optionsEnv EXCEPT !["K"] = value]
    /\ UNCHANGED iso
    /\ UNCHANGED <<apiVars, cacheVars, appRouteVars, routeVars, envVars, hmrVars,
                   pairVars>>

\* handleApiRoute up to the call of the handler
IsoInvoke(i) ==
    /\ iso[i].pc = "idle"
    /\ iso' = [iso EXCEPT ![i] = [@ EXCEPT !.pc = "handler",
                                           !.res = NewResponse,
                                           !.env = optionsEnv,
                                           !.env0 = optionsEnv]]
    /\ UNCHANGED optionsEnv
    /\ UNCHANGED <<apiVars, cacheVars, appRouteVars, routeVars, envVars, hmrVars,
                   pairVars>>

\* the handler of request i runs up to its next suspension point
IsoCall(i, op) ==
    /\ iso[i].pc \in {"handler", "waiting"}
    /\ Len(iso[i].made) < MaxIsoCalls
    /\ LET st == ApplyOp(i, [res |-> iso[i].res, env |-> iso[i].env], op)
       IN iso' = [iso EXCEPT ![i] = [@ EXCEPT !.res = st.res,
                                              !.env = st.env,
                                              !.made = Append(@, op)]]
    /\ optionsEnv' = IF op = "setEnv"
                     THEN OptionsEnvAfter(optionsEnv, "K", i)
                     ELSE optionsEnv
    /\ UNCHANGED <<apiVars, cacheVars, appRouteVars, routeVars, envVars, hmrVars,
                   pairVars>>

\* executeApiHandler returns
IsoReturns(i) ==
    /\ iso[i].pc = "handler"
    /\ iso' = [iso EXCEPT ![i] =
                IF @.res.ended
                THEN [@ EXCEPT !.pc = "done",
                               !.response = toResponse(iso[i].res)]
                ELSE [@ EXCEPT !.pc = "waiting"]]
    /\ UNCHANGED optionsEnv
    /\ UNCHANGED <<apiVars, cacheVars, appRouteVars, routeVars, envVars, hmrVars,
                   pairVars>>

\* a rejection that is dropped when the handler has ended the response:
\* the response the handler completed is returned
IsoThrowsIgnoredAfterEnd(i, msg) ==
    /\ iso[i].pc = "handler"
    /\ iso' = [iso EXCEPT ![i] =
                IF @.res.ended
                THEN [@ EXCEPT !.pc = "done", !.fault = msg,
                               !.response = toResponse(iso[i].res)]
                ELSE [@ EXCEPT !.pc = "done", !.fault = msg,
                               !.response = FaultResponse(msg)]]
    /\ UNCHANGED optionsEnv
    /\ UNCHANGED <<apiVars, cacheVars, appRouteVars, routeVars, envVars, hmrVars,
                   pairVars>>

\* executeApiHandler rethrows
IsoThrows(i, msg) ==
    /\ iso[i].pc = "handler"
    /\ iso' = [iso EXCEPT ![i] = [@ EXCEPT !.pc = "done",
                                           !.fault = msg,
                                           !.response = FaultResponse(msg)]]
    /\ UNCHANGED optionsEnv
    /\ UNCHANGED <<apiVars, cacheVars, appRouteVars, routeVars, envVars, hmrVars,
                   pairVars>>

\* Promise.race: res.waitForEnd() resolves first
IsoWaitForEndResolves(i) ==
    /\ iso[i].pc = "waiting"
    /\ iso[i].res.ended
    /\ iso' = [iso EXCEPT ![i] = [@ EXCEPT !.pc = "done",
                                           !.response =
                                               toResponse(iso[i].res)]]
    /\ UNCHANGED optionsEnv
    /\ UNCHANGED <<apiVars, cacheVars, appRouteVars, routeVars, envVars, hmrVars,
                   pairVars>>

\* Promise.race: the 30 s timer rejects first
IsoTimeout(i) ==
    /\ iso[i].pc = "waiting"
    /\ ~iso[i].res.ended
    /\ iso' = [iso EXCEPT ![i] =
                [@ EXCEPT !.pc = "done",
                          !.fault = <<"API handler timeout">>,
                          !.response =
                              FaultResponse(<<"API handler timeout">>)]]
    /\ UNCHANGED optionsEnv
    /\ UNCHANGED <<apiVars, cacheVars, appRouteVars, routeVars, envVars, hmrVars,
                   pairVars>>

NextIso ==
    \/ \E value \in ServerEnvValues : ServerSetEnv(value)
    \/ \E i \in Requests : IsoInvoke(i)
    \/ \E i \in Requests, op \in HandlerOps : IsoCall(i, op)
    \/ \E i \in Requests : IsoReturns(i)
    \/ \E i \in Requests, msg \in ErrorMessages : IsoThrows(i, msg)
    \/ \E i \in Requests : IsoWaitForEndResolves(i)
    \/ \E i \in Requests : IsoTimeout(i)

----------------------------------------------------------------------------
(* The virtual filesystem.  A path is a sequence of entry names; an entry  *)
(* name is kept in parts (its bracket kind, its text and its extension)    *)
(* so that the string tests of the resolvers can be computed on it.        *)

Name(kind, text, ext) == [kind |-> kind, text |-> text, ext |-> ext]

Lit(text) == Name("lit", text, "")                 \* about

FileName(base, ext) == Name("lit", base, ext)      \* page.tsx

Group(text) == Name("group", text, "")             \* (text)

Dyn(text) == Name("dyn", text, "")                 \* [text]

CatchAll(text) == Name("catchall", text, "")       \* [...text]

OptCatchAll(text) == Name("optional", text, "")    \* [[...text]]

DynFile(text, ext) == Name("dyn", text, ext)       \* [text].jsx

CatchAllFile(text, ext) == Name("catchall", text, ext)  \* [...text].jsx

appDir == <<Lit("app")>>

pagesDir == <<Lit("pages")>>

publicDir == <<Lit("public")>>

\* the value the resolvers return for "no file"
Null == << >>

Min(S) == CHOOSE x \in S : \A y \in S : x <= y

Range(seq) == {seq[k] : k \in DOMAIN seq}

Reverse(seq) == [k \in DOMAIN seq |-> seq[Len(seq) + 1 - k]]

IsProperPrefix(p, q) == Len(p) < Len(q) /\ SubSeq(q, 1, Len(p)) = p

\* fs holds the paths of the files; a directory exists when it holds a file
isDirectory(path) == \E f \in fs : IsProperPrefix(path, f)

exists(path) == path \in fs \/ isDirectory(path)

Children(dirPath) ==
    {f[Len(dirPath) + 1] : f \in {g \in fs : IsProperPrefix(dirPath, g)}}

\* a listing whose failure is not confined to the directory: the exception
\* of a directory that cannot be listed also ends the loop over the entries
\* of the directory that holds it
readdirSyncUncaught(dirPath) ==
    LET children == Children(dirPath)
        Listed(entry) == entry \in children
        Fails(d) == d \in unreadable
    IN IF \/ children = {}
          \/ Fails(dirPath)
          \/ \E entry \in children : Fails(Append(dirPath, entry))
       THEN << >>
       ELSE SelectSeq(listing, Listed)

\* a listing whose order is not kept from one call of a resolver to the
\* next: once a pathname was resolved the entries come in the opposite order
readdirSyncUnstable(dirPath) ==
    LET children == Children(dirPath)
        Listed(entry) == entry \in children
    IN IF children = {} \/ dirPath \in unreadable THEN << >>
       ELSE IF route.op = "none" THEN SelectSeq(listing, Listed)
       ELSE SelectSeq(Reverse(listing), Listed)

\* the entry names of a directory, in the order the filesystem lists them;
\* the listing of a path that is no directory, or of a directory that cannot
\* be read, throws: every caller lists inside a try whose catch goes on as
\* after a loop over no entries (782-794, 809-837, 1548-1553, 1621-1652,
\* 1656-1692, 1806-1845)
readdirSync(dirPath) ==
    LET children == Children(dirPath)
        Listed(entry) == entry \in children
    IN IF children = {} \/ dirPath \in unreadable THEN << >>
       ELSE SelectSeq(listing, Listed)

\* the tests the resolvers make on an entry name
IsRouteGroup(entry) == entry.kind = "group" /\ entry.ext = ""

IsCatchAll(entry) == entry.kind = "catchall" /\ entry.ext = ""

IsOptionalCatchAll(entry) == entry.kind = "optional" /\ entry.ext = ""

IsSingleDynamic(entry) == entry.kind = "dyn" /\ entry.ext = ""

\* the first of dirPath/base<ext> that exists, in the order of extensions
FirstExisting(dirPath, base, extensions) ==
    LET filePath(k) == Append(dirPath, FileName(base, extensions[k]))
        found == {k \in DOMAIN extensions : exists(filePath(k))}
    IN IF found = {} THEN Null ELSE filePath(Min(found))

\* dirPath followed by the URL segments as literal directory names
Descend(dirPath, segments) ==
    dirPath \o [k \in DOMAIN segments |-> Lit(segments[k])]

----------------------------------------------------------------------------
(* resolveAppRoute / resolveAppDynamicRoute *)

AppExtensions == <<".jsx", ".tsx", ".js", ".ts">>

NoRoute ==
    [found |-> FALSE, page |-> Null, layouts |-> << >>, params |-> << >>,
     loading |-> Null, error |-> Null, notFound |-> Null]

\* a parameter value: a string, or a list of strings
ParamString(segment) == [list |-> FALSE, segs |-> <<segment>>]

ParamList(segments) == [list |-> TRUE, segs |-> segments]

\* { ...params, [paramName]: value }
Bind(params, paramName, value) == (paramName :> value) @@ params

\* a collectLayout that puts the layout of the directory in front
collectLayoutInFront(dirPath, layouts) ==
    LET layoutPath(k) == Append(dirPath, FileName("layout", AppExtensions[k]))
        found == {k \in DOMAIN AppExtensions :
                     /\ exists(layoutPath(k))
                     /\ layoutPath(k) \notin Range(layouts)}
    IN IF found = {} THEN layouts
       ELSE <<layoutPath(Min(found))>> \o layouts

collectLayout(dirPath, layouts) ==
    LET layoutPath(k) == Append(dirPath, FileName("layout", AppExtensions[k]))
        found == {k \in DOMAIN AppExtensions :
                     /\ exists(layoutPath(k))
                     /\ layoutPath(k) \notin Range(layouts)}
    IN IF found = {} THEN layouts
       ELSE Append(layouts, layoutPath(Min(found)))

findPage(dirPath) == FirstExisting(dirPath, "page", AppExtensions)

findConventionFile(dirPath, name) ==
    FirstExisting(dirPath, name, AppExtensions)

\* a lookup that stops at the directory of the page
findConventionFileOfPageDirectory(dirPath, name) ==
    findConventionFile(dirPath, name)

RECURSIVE findNearestConventionFile(_, _)
findNearestConventionFile(dirPath, name) ==
    IF ~(Len(dirPath) >= 1 /\ dirPath[1] = appDir[1]) THEN Null
    ELSE IF findConventionFile(dirPath, name) # Null
    THEN findConventionFile(dirPath, name)
    ELSE findNearestConventionFile(SubSeq(dirPath, 1, Len(dirPath) - 1),
                                   name)

\* a getRouteGroups whose directory test is inverted
getRouteGroupsNotDirectory(dirPath) ==
    LET IsGroupFile(entry) ==
            IsRouteGroup(entry) /\ ~isDirectory(Append(dirPath, entry))
    IN SelectSeq(readdirSync(dirPath), IsGroupFile)

getRouteGroups(dirPath) ==
    LET IsGroupDir(entry) ==
            IsRouteGroup(entry) /\ isDirectory(Append(dirPath, entry))
    IN SelectSeq(readdirSync(dirPath), IsGroupDir)

\* the AppRoute returned for the page found in dirPath
AppRoute(page, dirPath, layouts, params) ==
    [found |-> TRUE, page |-> page, layouts |-> layouts, params |-> params,
     loading |-> findNearestConventionFile(dirPath, "loading"),
     error |-> findNearestConventionFile(dirPath, "error"),
     notFound |-> findNearestConventionFile(dirPath, "not-found")]

\* the first result of a loop that returns as soon as a result was found
FirstFound(results) ==
    LET hits == {k \in DOMAIN results : results[k].found}
    IN IF hits = {} THEN NoRoute ELSE results[Min(hits)]

\* a catch-all that binds only the segments after the current one
CatchAllValueRest(current, rest) == ParamList(rest)

\* [paramName]: [current, ...rest]
CatchAllValue(current, rest) == ParamList(<<current>> \o rest)

\* an order of attempts that tries the dynamic entries first
AppAttemptsDynamicFirst(exact, inGroups, dynamic) ==
    <<dynamic, inGroups, exact>>

\* the order in which tryPath makes its attempts for a segment: the exact
\* directory (1599-1604), the route groups (1606-1653), the dynamic entries
\* of the directory (1655-1692)
AppAttempts(exact, inGroups, dynamic) == <<exact, inGroups, dynamic>>

RECURSIVE AppTryPath(_, _, _, _)
RECURSIVE AppTryEntry(_, _, _, _, _, _)
RECURSIVE AppTryGroup(_, _, _, _, _, _)

\* one pass of the loops over a directory's entries (1623-1649, 1658-1689)
AppTryEntry(dirPath, entry, current, rest, layouts, params) ==
    LET dynamicPath == Append(dirPath, entry) IN
    IF IsCatchAll(entry) \/ IsOptionalCatchAll(entry)
    THEN IF isDirectory(dynamicPath)
         THEN AppTryPath(dynamicPath, << >>, layouts,
                         Bind(params, entry.text,
                              CatchAllValue(current, rest)))
         ELSE NoRoute
    ELSE IF IsSingleDynamic(entry)
    THEN IF isDirectory(dynamicPath)
         THEN AppTryPath(dynamicPath, rest, layouts,
                         Bind(params, entry.text, ParamString(current)))
         ELSE NoRoute
    ELSE NoRoute

\* a pass over a route group that tries only the exact name inside it
AppTryGroupExactOnly(dirPath, group, current, rest, layouts, params) ==
    LET groupPath == Append(dirPath, group)
        groupExactPath == Append(groupPath, Lit(current))
    IN IF isDirectory(groupExactPath)
       THEN AppTryPath(groupExactPath, rest,
                       collectLayout(groupPath, layouts), params)
       ELSE NoRoute

\* one pass of the loop over the route groups of dirPath (1609-1653)
AppTryGroup(dirPath, group, current, rest, layouts, params) ==
    LET groupPath == Append(dirPath, group)
        groupLayouts == collectLayout(groupPath, layouts)
        groupExactPath == Append(groupPath, Lit(current))
        exact == IF isDirectory(groupExactPath)
                 THEN AppTryPath(groupExactPath, rest, groupLayouts, params)
                 ELSE NoRoute
        groupEntries == readdirSync(groupPath)
    IN IF exact.found THEN exact
       ELSE FirstFound([k \in DOMAIN groupEntries |->
                AppTryEntry(groupPath, groupEntries[k], current, rest,
                            groupLayouts, params)])

\* tryPath of resolveAppDynamicRoute
AppTryPath(dirPath, remainingSegments, layouts0, params) ==
    LET layouts == collectLayout(dirPath, layouts0)
        groups == getRouteGroups(dirPath)
    IN
    IF remainingSegments = << >>
    THEN IF findPage(dirPath) # Null
         THEN AppRoute(findPage(dirPath), dirPath, layouts, params)
         ELSE FirstFound([k \in DOMAIN groups |->
                LET groupPath == Append(dirPath, groups[k]) IN
                IF findPage(groupPath) # Null
                THEN AppRoute(findPage(groupPath), groupPath,
                              collectLayout(groupPath, layouts), params)
                ELSE NoRoute])
    ELSE
    LET current == Head(remainingSegments)
        rest == Tail(remainingSegments)
        exactPath == Append(dirPath, Lit(current))
        exact == IF isDirectory(exactPath)
                 THEN AppTryPath(exactPath, rest, layouts, params)
                 ELSE NoRoute
        inGroups == FirstFound([k \in DOMAIN groups |->
                        AppTryGroup(dirPath, groups[k], current, rest,
                                    layouts, params)])
        entries == readdirSync(dirPath)
        dynamic == FirstFound([k \in DOMAIN entries |->
                        AppTryEntry(dirPath, entries[k], current, rest,
                                    layouts, params)])
    IN FirstFound(AppAttempts(exact, inGroups, dynamic))

\* a resolver whose root layout is the last one in the order of extensions
resolveAppDynamicRouteLastExt(segments) ==
    LET found == {k \in DOMAIN AppExtensions :
                     exists(Append(appDir,
                                   FileName("layout", AppExtensions[k])))}
        Max(S) == CHOOSE x \in S : \A y \in S : x >= y
    IN AppTryPath(appDir, segments,
                  IF found # {}
                  THEN <<Append(appDir,
                                FileName("layout", AppExtensions[Max(found)]))>>
                  ELSE << >>,
                  << >>)

\* the root layout, then tryPath from the app directory
resolveAppDynamicRoute(segments) ==
    LET rootLayout == FirstExisting(appDir, "layout", AppExtensions)
    IN AppTryPath(appDir, segments,
                  IF rootLayout # Null THEN <<rootLayout>> ELSE << >>,
                  << >>)

\* pathname.split('/').filter(Boolean): a pathname is kept as its segments
resolveAppRoute(segments) == resolveAppDynamicRoute(segments)

----------------------------------------------------------------------------
(* resolveAppRouteHandler / resolveAppRouteHandlerDynamic *)

RouteExtensions == <<".ts", ".js", ".tsx", ".jsx">>

findRoute(dirPath) == FirstExisting(dirPath, "route", RouteExtensions)

\* the first path of a loop that returns as soon as a file was found
FirstPath(results) ==
    LET hits == {k \in DOMAIN results : results[k] # Null}
    IN IF hits = {} THEN Null ELSE results[Min(hits)]

RECURSIVE RouteTryPath(_, _)
RECURSIVE RouteTryEntry(_, _, _, _)

\* one pass of the loop over the entries of dirPath (811-836)
RouteTryEntry(dirPath, entry, current, rest) ==
    LET groupExact == Append(Append(dirPath, entry), Lit(current))
        dynamicPath == Append(dirPath, entry)
        inGroup == IF /\ IsRouteGroup(entry)
                      /\ isDirectory(Append(dirPath, entry))
                      /\ isDirectory(groupExact)
                   THEN RouteTryPath(groupExact, rest)
                   ELSE Null
        dynamic == IF IsSingleDynamic(entry) /\ isDirectory(dynamicPath)
                   THEN RouteTryPath(dynamicPath, rest)
                   ELSE Null
        catchAll == IF IsCatchAll(entry) /\ isDirectory(dynamicPath)
                    THEN RouteTryPath(dynamicPath, << >>)
                    ELSE Null
    IN IF inGroup # Null THEN inGroup
       ELSE IF dynamic # Null THEN dynamic
       ELSE catchAll

\* tryPath of resolveAppRouteHandlerDynamic
RouteTryPath(dirPath, remainingSegments) ==
    LET entries == readdirSync(dirPath) IN
    IF remainingSegments = << >>
    THEN IF findRoute(dirPath) # Null THEN findRoute(dirPath)
         ELSE FirstPath([k \in DOMAIN entries |->
                IF /\ IsRouteGroup(entries[k])
                   /\ isDirectory(Append(dirPath, entries[k]))
                THEN findRoute(Append(dirPath, entries[k]))
                ELSE Null])
    ELSE
    LET current == Head(remainingSegments)
        rest == Tail(remainingSegments)
        exactPath == Append(dirPath, Lit(current))
        exact == IF isDirectory(exactPath)
                 THEN RouteTryPath(exactPath, rest)
                 ELSE Null
    IN IF exact # Null THEN exact
       ELSE FirstPath([k \in DOMAIN entries |->
                RouteTryEntry(dirPath, entries[k], current, rest)])

resolveAppRouteHandlerDynamic(segments) == RouteTryPath(appDir, segments)

resolveAppRouteHandler(segments) ==
    IF findRoute(Descend(appDir, segments)) # Null
    THEN findRoute(Descend(appDir, segments))
    ELSE resolveAppRouteHandlerDynamic(segments)

----------------------------------------------------------------------------
(* resolvePageFile / resolveDynamicRoute *)

PageExtensions == <<".jsx", ".tsx", ".js", ".ts">>

\* exactPath + ext: the file named as the last segment of the path
WithExtension(path, extensions) ==
    FirstExisting(SubSeq(path, 1, Len(path) - 1), path[Len(path)].text,
                  extensions)

\* entry.endsWith(ext) and /^\[([^\]]+)\]$/ matches the name without ext:
\* [id].jsx, and [...slug].jsx as well
IsDynamicFile(entry) ==
    /\ entry.ext \in Range(PageExtensions)
    /\ entry.kind \in {"dyn", "catchall"}

\* entry.startsWith('[...') && entry.endsWith(']' + ext)
IsCatchAllFile(entry) ==
    /\ entry.ext \in Range(PageExtensions)
    /\ entry.kind = "catchall"

RECURSIVE PagesTryPath(_, _)
RECURSIVE PagesTryEntry(_, _, _)

\* one pass of the loop over the entries of dirPath (1808-1842)
PagesTryEntry(dirPath, entry, rest) ==
    LET filePath == Append(dirPath, entry)
        dynamicResult == IF IsSingleDynamic(entry) /\ isDirectory(filePath)
                         THEN PagesTryPath(filePath, rest)
                         ELSE Null
    IN IF IsDynamicFile(entry) /\ rest = << >> /\ exists(filePath)
       THEN filePath
       ELSE IF dynamicResult # Null THEN dynamicResult
       ELSE IF IsCatchAllFile(entry) /\ exists(filePath) THEN filePath
       ELSE Null

\* tryPath of resolveDynamicRoute
PagesTryPath(dirPath, remainingSegments) ==
    IF remainingSegments = << >>
    THEN FirstExisting(dirPath, "index", PageExtensions)
    ELSE
    LET current == Head(remainingSegments)
        rest == Tail(remainingSegments)
        exactPath == Append(dirPath, Lit(current))
        exactFile == IF rest = << >>
                     THEN WithExtension(exactPath, PageExtensions)
                     ELSE Null
        exactResult == IF isDirectory(exactPath)
                       THEN PagesTryPath(exactPath, rest)
                       ELSE Null
        entries == readdirSync(dirPath)
    IN IF exactFile # Null THEN exactFile
       ELSE IF exactResult # Null THEN exactResult
       ELSE FirstPath([k \in DOMAIN entries |->
                PagesTryEntry(dirPath, entries[k], rest)])

resolveDynamicRoute(segments) ==
    IF segments = << >> THEN Null ELSE PagesTryPath(pagesDir, segments)

\* a resolver that looks for <path>/index before the exact file
resolvePageFileIndexFirst(segments0) ==
    LET segments == IF segments0 = << >> THEN <<"index">> ELSE segments0
        pathname == Descend(pagesDir, segments)
    IN IF FirstExisting(pathname, "index", PageExtensions) # Null
       THEN FirstExisting(pathname, "index", PageExtensions)
       ELSE IF WithExtension(pathname, PageExtensions) # Null
       THEN WithExtension(pathname, PageExtensions)
       ELSE resolveDynamicRoute(segments)

\* pathname '/' is '/index'
resolvePageFile(segments0) ==
    LET segments == IF segments0 = << >> THEN <<"index">> ELSE segments0
        pathname == Descend(pagesDir, segments)
    IN IF WithExtension(pathname, PageExtensions) # Null
       THEN WithExtension(pathname, PageExtensions)
       ELSE IF FirstExisting(pathname, "index", PageExtensions) # Null
       THEN FirstExisting(pathname, "index", PageExtensions)
       ELSE resolveDynamicRoute(segments)

----------------------------------------------------------------------------
(* handleRequest: which handler serves a pathname *)

ApiExtensions == <<".js", ".ts", ".jsx", ".tsx">>

FileExtensions == <<".tsx", ".ts", ".jsx", ".js">>

\* /api/... is looked up under pagesDir/api
resolveApiFile(segments) ==
    LET apiPath == Descend(pagesDir, segments)
    IN IF WithExtension(apiPath, ApiExtensions) # Null
       THEN WithExtension(apiPath, ApiExtensions)
       ELSE FirstExisting(apiPath, "index", ApiExtensions)

\* the pathnames of the model carry no extension
resolveFileWithExtension(segments) ==
    LET pathname == Descend(<< >>, segments)
    IN IF segments = << >> THEN Null
       ELSE IF WithExtension(pathname, FileExtensions) # Null
       THEN WithExtension(pathname, FileExtensions)
       ELSE FirstExisting(pathname, "index", FileExtensions)

Served(by, file) == [by |-> by, file |-> file]

\* the params handleAppRouteHandler passes to the exported handler:
\* route?.params || {} of resolveAppRoute(pathname)
routeHandlerParams(segments) == resolveAppRoute(segments).params

\* handlePageRoute, handleAppRouterPage: the page file that is rendered
handlePageRoute(segments) ==
    IF useAppRouter
    THEN IF resolveAppRoute(segments).found
         THEN Served("handleAppRouterPage", resolveAppRoute(segments).page)
         ELSE Served("not found", resolveAppRoute(<<"not-found">>).page)
    ELSE IF resolvePageFile(segments) # Null
         THEN Served("handlePageRoute", resolvePageFile(segments))
         ELSE Served("not found", resolvePageFile(<<"404">>))

\* a dispatch that tests /api/ before the App Router route handlers
handleRequestApiFirst(segments) ==
    IF Len(segments) >= 2 /\ segments[1] = "api"
    THEN Served("handleApiRoute", resolveApiFile(segments))
    ELSE IF useAppRouter /\ resolveAppRouteHandler(segments) # Null
    THEN Served("handleAppRouteHandler", resolveAppRouteHandler(segments))
    ELSE handlePageRoute(segments)

\* a dispatch that passes an /api/ request on when no API file resolves
handleRequestApiFallsThrough(segments) ==
    LET pathname == Descend(<< >>, segments)
        publicPath == publicDir \o pathname
    IN
    IF /\ Len(segments) >= 2
       /\ segments[1] = "_next"
       /\ segments[2] \in {"shims", "pages", "app", "static"}
    THEN Served("_next", Null)
    ELSE IF useAppRouter /\ resolveAppRouteHandler(segments) # Null
    THEN Served("handleAppRouteHandler", resolveAppRouteHandler(segments))
    ELSE IF /\ Len(segments) >= 2
            /\ segments[1] = "api"
            /\ resolveApiFile(segments) # Null
    THEN Served("handleApiRoute", resolveApiFile(segments))
    ELSE IF exists(publicPath) /\ ~isDirectory(publicPath)
    THEN Served("serveFile", publicPath)
    ELSE IF resolveFileWithExtension(segments) # Null
    THEN Served("transformAndServe", resolveFileWithExtension(segments))
    ELSE IF exists(pathname) /\ ~isDirectory(pathname)
    THEN Served("serveFile", pathname)
    ELSE handlePageRoute(segments)

\* a dispatch that serves a public file only when no page route matches
handleRequestPageBeforePublic(segments) ==
    LET pathname == Descend(<< >>, segments)
        publicPath == publicDir \o pathname
    IN
    IF /\ Len(segments) >= 2
       /\ segments[1] = "_next"
       /\ segments[2] \in {"shims", "pages", "app", "static"}
    THEN Served("_next", Null)
    ELSE IF useAppRouter /\ resolveAppRouteHandler(segments) # Null
    THEN Served("handleAppRouteHandler", resolveAppRouteHandler(segments))
    ELSE IF Len(segments) >= 2 /\ segments[1] = "api"
    THEN Served("handleApiRoute", resolveApiFile(segments))
    ELSE IF handlePageRoute(segments).by # "not found"
    THEN handlePageRoute(segments)
    ELSE IF exists(publicPath) /\ ~isDirectory(publicPath)
    THEN Served("serveFile", publicPath)
    ELSE IF resolveFileWithExtension(segments) # Null
    THEN Served("transformAndServe", resolveFileWithExtension(segments))
    ELSE IF exists(pathname) /\ ~isDirectory(pathname)
    THEN Served("serveFile", pathname)
    ELSE handlePageRoute(segments)

\* the dispatch of handleRequest, in the order of its tests
handleRequest(segments) ==
    LET pathname == Descend(<< >>, segments)
        publicPath == publicDir \o pathname
    IN
    IF /\ Len(segments) >= 2
       /\ segments[1] = "_next"
       /\ segments[2] \in {"shims", "pages", "app", "static"}
    THEN Served("_next", Null)
    ELSE IF useAppRouter /\ resolveAppRouteHandler(segments) # Null
    THEN Served("handleAppRouteHandler", resolveAppRouteHandler(segments))
    ELSE IF Len(segments) >= 2 /\ segments[1] = "api"
    THEN Served("handleApiRoute", resolveApiFile(segments))
    ELSE IF exists(publicPath) /\ ~isDirectory(publicPath)
    THEN Served("serveFile", publicPath)
    ELSE IF resolveFileWithExtension(segments) # Null
    THEN Served("transformAndServe", resolveFileWithExtension(segments))
    ELSE IF exists(pathname) /\ ~isDirectory(pathname)
    THEN Served("serveFile", pathname)
    ELSE handlePageRoute(segments)

----------------------------------------------------------------------------
(* Projects and pathnames the resolvers are applied to *)

MaxSegments == 3

UrlCandidates ==
    {<< >>, <<"blog">>, <<"blog", "post">>, <<"blog", "x">>,
     <<"blog", "x", "edit">>, <<"blog", "x", "y">>, <<"about">>,
     <<"api", "hello">>, <<"api", "x">>, <<"api", "x", "y">>,
     <<"blog", "x", "y", "z">>, <<"xyz">>}

Urls == {u \in UrlCandidates : Len(u) <= MaxSegments}

\* files of an App Router project
AppCandidates ==
    {appDir \o <<FileName("layout", ".jsx")>>,
     appDir \o <<FileName("layout", ".tsx")>>,
     appDir \o <<Lit("blog"), FileName("layout", ".tsx")>>,
     appDir \o <<Lit("blog"), Lit("post"), FileName("layout", ".js")>>,
     appDir \o <<Lit("blog"), Lit("post"), FileName("page", ".tsx")>>,
     appDir \o <<Lit("blog"), Dyn("id"), FileName("page", ".tsx")>>,
     appDir \o <<Lit("blog"), Dyn("id"), Lit("edit"),
                 FileName("page", ".tsx")>>,
     appDir \o <<Lit("blog"), CatchAll("slug"), FileName("page", ".tsx")>>,
     appDir \o <<Group("g"), FileName("layout", ".tsx")>>,
     appDir \o <<Group("g"), Lit("about"), FileName("page", ".tsx")>>}

\* files of a Pages Router project
PagesCandidates ==
    {pagesDir \o <<FileName("index", ".jsx")>>,
     pagesDir \o <<FileName("about", ".jsx")>>,
     pagesDir \o <<Lit("blog"), FileName("post", ".jsx")>>,
     pagesDir \o <<Lit("blog"), Lit("post"), FileName("index", ".tsx")>>,
     pagesDir \o <<Lit("blog"), DynFile("id", ".jsx")>>,
     pagesDir \o <<Lit("blog"), Dyn("id"), FileName("edit", ".jsx")>>,
     pagesDir \o <<Lit("blog"), CatchAllFile("slug", ".jsx")>>,
     publicDir \o <<Lit("about")>>}

\* files of a project with route handlers and flat API files
HandlerCandidates ==
    {appDir \o <<FileName("page", ".tsx")>>,
     appDir \o <<Lit("api"), Lit("hello"), FileName("route", ".ts")>>,
     appDir \o <<Lit("api"), Dyn("id"), FileName("route", ".ts")>>,
     appDir \o <<Lit("api"), CatchAll("slug"), FileName("route", ".ts")>>,
     appDir \o <<Group("g"), Lit("api"), Lit("hello"),
                 FileName("route", ".js")>>,
     pagesDir \o <<Lit("api"), FileName("hello", ".js")>>,
     pagesDir \o <<Lit("api"), FileName("x", ".ts")>>,
     publicDir \o <<Lit("api"), Lit("x"), Lit("y")>>}

\* one order of all entry names; a filesystem lists a directory in this
\* order or in the opposite one
NameOrder ==
    <<Lit("app"), Lit("pages"), Lit("api"), Lit("blog"), Lit("post"),
      Lit("about"), Lit("hello"), Lit("edit"),
      FileName("layout", ".jsx"), FileName("layout", ".tsx"),
      FileName("layout", ".js"), FileName("page", ".tsx"),
      FileName("route", ".ts"), FileName("route", ".js"),
      FileName("index", ".jsx"), FileName("index", ".tsx"),
      FileName("post", ".jsx"), FileName("edit", ".jsx"),
      FileName("hello", ".js"), FileName("x", ".ts"),
      Group("g"), Dyn("id"), DynFile("id", ".jsx"),
      CatchAll("slug"), CatchAllFile("slug", ".jsx"),
      Lit("docs"), Lit("public"), Lit("x"), Lit("y"),
      FileName("about", ".jsx"),
      FileName("loading", ".jsx"), FileName("loading", ".tsx"),
      FileName("error", ".tsx"), FileName("not-found", ".tsx"),
      Group("marketing"), OptCatchAll("slug")>>

Listings == {NameOrder, Reverse(NameOrder)}

\* a project, its listing order, and no pathname resolved yet; each
\* behaviour applies one resolver to one pathname
InitRoutes ==
    /\ \/ fs \in SUBSET AppCandidates /\ useAppRouter = TRUE
       \/ fs \in SUBSET PagesCandidates /\ useAppRouter = FALSE
       \/ fs \in SUBSET HandlerCandidates /\ useAppRouter \in BOOLEAN
    /\ listing \in Listings
    /\ route = [op |-> "none"]
    /\ unreadable = {}

ResolveAppRoute(url) ==
    /\ route.op = "none"
    /\ route' = [op |-> "resolveAppRoute", url |-> url,
                 app |-> resolveAppRoute(url)]
    /\ UNCHANGED <<fs, listing, useAppRouter, unreadable>>
    /\ UNCHANGED <<apiVars, cacheVars, appRouteVars, isoVars, envVars, hmrVars,
                   pairVars>>

ResolvePageFile(url) ==
    /\ route.op = "none"
    /\ route' = [op |-> "resolvePageFile", url |-> url,
                 file |-> resolvePageFile(url)]
    /\ UNCHANGED <<fs, listing, useAppRouter, unreadable>>
    /\ UNCHANGED <<apiVars, cacheVars, appRouteVars, isoVars, envVars, hmrVars,
                   pairVars>>

ResolveAppRouteHandler(url) ==
    /\ route.op = "none"
    /\ route' = [op |-> "resolveAppRouteHandler", url |-> url,
                 file |-> resolveAppRouteHandler(url)]
    /\ UNCHANGED <<fs, listing, useAppRouter, unreadable>>
    /\ UNCHANGED <<apiVars, cacheVars, appRouteVars, isoVars, envVars, hmrVars,
                   pairVars>>

HandleRequest(url) ==
    /\ route.op = "none"
    /\ LET served == handleRequest(url)
       IN route' = [op |-> "handleRequest", url |-> url, served |-> served,
                    response |-> IF served = Served("handleApiRoute", Null)
                                 THEN ApiRouteNotFound
                                 ELSE NoResponse,
                    params |-> IF served.by = "handleAppRouteHandler"
                               THEN routeHandlerParams(url)
                               ELSE << >>]
    /\ UNCHANGED <<fs, listing, useAppRouter, unreadable>>
    /\ UNCHANGED <<apiVars, cacheVars, appRouteVars, isoVars, envVars, hmrVars,
                   pairVars>>

NextRoutes ==
    \/ \E url \in Urls : ResolveAppRoute(url)
    \/ \E url \in Urls : ResolvePageFile(url)
    \/ \E url \in Urls : ResolveAppRouteHandler(url)
    \/ \E url \in Urls : HandleRequest(url)

----------------------------------------------------------------------------
(* App Router trees with route groups, optional catch-alls and convention  *)
(* files                                                                   *)

TreeUrlCandidates ==
    {<< >>, <<"docs">>, <<"docs", "a">>, <<"docs", "a", "b">>, <<"about">>,
     <<"x">>, <<"docs", "a", "b", "c">>}

TreeUrls == {u \in TreeUrlCandidates : Len(u) <= MaxSegments}

\* files of a project whose pages lie under a route group or under an
\* optional catch-all
GroupCandidates ==
    {appDir \o <<FileName("layout", ".tsx")>>,
     appDir \o <<Group("marketing"), FileName("page", ".tsx")>>,
     appDir \o <<Group("marketing"), FileName("layout", ".tsx")>>,
     appDir \o <<Group("marketing"), Lit("about"), FileName("page", ".tsx")>>,
     appDir \o <<Group("marketing"), Lit("about"),
                 FileName("layout", ".tsx")>>,
     appDir \o <<Group("marketing"), Dyn("id"), FileName("page", ".tsx")>>,
     appDir \o <<Lit("docs"), OptCatchAll("slug"), FileName("page", ".tsx")>>,
     appDir \o <<Lit("docs"), FileName("layout", ".tsx")>>}

\* files of a project with loading, error and not-found files at several
\* levels
ConventionCandidates ==
    {appDir \o <<Lit("docs"), FileName("page", ".tsx")>>,
     appDir \o <<Lit("docs"), Dyn("id"), FileName("page", ".tsx")>>,
     appDir \o <<FileName("loading", ".jsx")>>,
     appDir \o <<FileName("loading", ".tsx")>>,
     appDir \o <<FileName("error", ".tsx")>>,
     appDir \o <<FileName("not-found", ".tsx")>>,
     appDir \o <<Lit("docs"), FileName("loading", ".tsx")>>,
     appDir \o <<Lit("docs"), FileName("error", ".tsx")>>,
     appDir \o <<Lit("docs"), Dyn("id"), FileName("loading", ".tsx")>>,
     appDir \o <<Lit("docs"), Dyn("id"), FileName("not-found", ".tsx")>>}

InitTrees ==
    /\ fs \in (SUBSET GroupCandidates) \cup (SUBSET ConventionCandidates)
    /\ useAppRouter = TRUE
    /\ listing \in Listings
    /\ route = [op |-> "none"]
    /\ unreadable = {}

\* the path of a file once the route-group directories on it are dissolved
WithoutGroups(path) ==
    LET NotGroup(entry) == ~IsRouteGroup(entry)
    IN SelectSeq(path, NotGroup)

\* the content of every route group is moved into the directory that holds
\* the group (the project is rewritten in the virtual filesystem)
DissolveGroups ==
    /\ route.op = "resolveAppRoute"
    /\ \E f \in fs : WithoutGroups(f) # f
    /\ fs' = {WithoutGroups(f) : f \in fs}
    /\ route' = [op |-> "dissolved", url |-> route.url, grouped |-> route.app,
                 moved |-> {f \in fs : WithoutGroups(f) # f}]
    /\ UNCHANGED <<listing, useAppRouter, unreadable>>
    /\ UNCHANGED <<apiVars, cacheVars, appRouteVars, isoVars, envVars, hmrVars,
                   pairVars>>

\* the pathname resolved on the tree with groups is resolved on the new tree
ResolveWithoutGroups ==
    /\ route.op = "dissolved"
    /\ route' = [op |-> "resolveWithoutGroups", url |-> route.url,
                 grouped |-> route.grouped, moved |-> route.moved,
                 app |-> resolveAppRoute(route.url)]
    /\ UNCHANGED <<fs, listing, useAppRouter, unreadable>>
    /\ UNCHANGED <<apiVars, cacheVars, appRouteVars, isoVars, envVars, hmrVars,
                   pairVars>>

NextTrees ==
    \/ \E url \in TreeUrls : ResolveAppRoute(url)
    \/ DissolveGroups
    \/ ResolveWithoutGroups

----------------------------------------------------------------------------
(* Trees on which a resolver has to backtrack, and directories whose       *)
(* listing fails                                                           *)

BacktrackUrls ==
    {<<"blog">>, <<"blog", "post">>, <<"blog", "post", "edit">>,
     <<"about">>, <<"api", "hello">>}

\* pages under a literal directory that resolves nothing, under route
\* groups and under dynamic directories
AppBacktrackCandidates ==
    {appDir \o <<Lit("blog"), Lit("post"), FileName("layout", ".tsx")>>,
     appDir \o <<Lit("blog"), Dyn("id"), FileName("page", ".tsx")>>,
     appDir \o <<Lit("blog"), CatchAll("slug"), FileName("page", ".tsx")>>,
     appDir \o <<Group("g"), Lit("blog"), Lit("post"),
                 FileName("page", ".tsx")>>,
     appDir \o <<Group("g"), Dyn("id"), FileName("page", ".tsx")>>,
     appDir \o <<Group("g"), Group("marketing"), Lit("about"),
                 FileName("page", ".tsx")>>}

RouteBacktrackCandidates ==
    {appDir \o <<Lit("api"), Lit("hello"), FileName("page", ".tsx")>>,
     appDir \o <<Lit("api"), Dyn("id"), FileName("route", ".ts")>>,
     appDir \o <<Lit("api"), CatchAll("slug"), FileName("route", ".ts")>>,
     appDir \o <<Group("g"), Lit("api"), Lit("hello"),
                 FileName("route", ".js")>>,
     appDir \o <<Group("g"), Dyn("id"), FileName("route", ".ts")>>}

PagesBacktrackCandidates ==
    {pagesDir \o <<Lit("blog"), Lit("post"), FileName("index", ".tsx")>>,
     pagesDir \o <<Lit("blog"), Lit("post"), FileName("hello", ".js")>>,
     pagesDir \o <<Lit("blog"), Dyn("id"), FileName("edit", ".jsx")>>,
     pagesDir \o <<Lit("blog"), DynFile("id", ".jsx")>>,
     pagesDir \o <<Lit("blog"), CatchAllFile("slug", ".jsx")>>}

\* the directories whose listing may fail
UnreadableDirs ==
    {appDir, appDir \o <<Lit("blog")>>, appDir \o <<Lit("blog"), Lit("post")>>,
     appDir \o <<Group("g")>>, appDir \o <<Lit("api")>>,
     pagesDir \o <<Lit("blog")>>}

InitBacktrack ==
    /\ \/ fs \in SUBSET AppBacktrackCandidates /\ useAppRouter = TRUE
       \/ fs \in SUBSET RouteBacktrackCandidates /\ useAppRouter = TRUE
       \/ fs \in SUBSET PagesBacktrackCandidates /\ useAppRouter = FALSE
    /\ listing \in Listings
    /\ route = [op |-> "none"]
    /\ unreadable \in {{}} \cup {{d} : d \in UnreadableDirs}

\* what the last resolver call returned
Result(r) == IF r.op = "resolveAppRoute" THEN r.app ELSE r.file

Resolve(op, url) ==
    CASE op = "resolveAppRoute" -> resolveAppRoute(url)
      [] op = "resolvePageFile" -> resolvePageFile(url)
      [] op = "resolveAppRouteHandler" -> resolveAppRouteHandler(url)

ResolverOps == {"resolveAppRoute", "resolvePageFile", "resolveAppRouteHandler"}

\* the entries of a directory that only its listing gives: the entries the
\* resolvers do not name by a segment of the pathname
Unlisted(f) ==
    \E d \in unreadable :
        /\ IsProperPrefix(d, f)
        /\ f[Len(d) + 1].kind # "lit"

\* the listings work again, on a tree without the entries that only the
\* failed listings could give
RepairListings ==
    /\ route.op \in ResolverOps
    /\ unreadable # {}
    /\ fs' = {f \in fs : ~Unlisted(f)}
    /\ unreadable' = {}
    /\ route' = [op |-> "repaired", resolver |-> route.op, url |-> route.url,
                 before |-> Result(route),
                 pruned |-> {f \in fs : Unlisted(f)}]
    /\ UNCHANGED <<listing, useAppRouter>>
    /\ UNCHANGED <<apiVars, cacheVars, appRouteVars, isoVars, envVars, hmrVars,
                   pairVars>>

\* the same resolver is called again with the same pathname
ResolveAgain ==
    /\ route.op \in ResolverOps \cup {"repaired"}
    /\ LET first == route.op \in ResolverOps
           resolver == IF first THEN route.op ELSE route.resolver
       IN route' = [op |-> "again", resolver |-> resolver, url |-> route.url,
                    repaired |-> ~first,
                    before |-> IF first THEN Result(route) ELSE route.before,
                    pruned |-> IF first THEN {} ELSE route.pruned,
                    result |-> Resolve(resolver, route.url)]
    /\ UNCHANGED <<fs, listing, useAppRouter, unreadable>>
    /\ UNCHANGED <<apiVars, cacheVars, appRouteVars, isoVars, envVars, hmrVars,
                   pairVars>>

NextBacktrack ==
    \/ \E url \in BacktrackUrls : ResolveAppRoute(url)
    \/ \E url \in BacktrackUrls : ResolvePageFile(url)
    \/ \E url \in BacktrackUrls : ResolveAppRouteHandler(url)
    \/ RepairListings
    \/ ResolveAgain

----------------------------------------------------------------------------
(* setEnv / generateEnvScript, on two servers whose environments differ    *)
(* only in variables that are not public.  A variable name is kept as its  *)
(* parts, so that the prefix test can be computed; an environment is the   *)
(* sequence of its entries, in the order Object.entries gives them.        *)

MaxEnvEntries == 3

Servers == {"s1", "s2"}

PublicPrefix == "NEXT_PUBLIC_"

EnvKeys ==
    {<<"NEXT_PUBLIC_", "A">>, <<"NEXT_PUBLIC_", "B">>, <<"SECRET_KEY">>,
     <<"MY_", "NEXT_PUBLIC_", "X">>}

EnvValues == {"v1", "v2"}

Entry(key, value) == [key |-> key, value |-> value]

\* key.includes(prefix)
includes(key, prefix) == \E k \in DOMAIN key : key[k] = prefix

\* key.startsWith(prefix)
startsWith(key, prefix) == key[1] = prefix

\* this.options.env[key] = value: an existing key keeps its place, a new one
\* is added at the end
setEnv(env, key, value) ==
    IF \E k \in DOMAIN env : env[k].key = key
    THEN [k \in DOMAIN env |->
            IF env[k].key = key THEN Entry(key, value) ELSE env[k]]
    ELSE Append(env, Entry(key, value))

\* publicEnvVars: the entries of env whose key starts with the prefix
publicEnvVars(env) ==
    LET IsPublic(e) == startsWith(e.key, PublicPrefix)
    IN SelectSeq(env, IsPublic)

\* the part of the script that depends on the environment
generateEnvScript(env) == JSONStringify(publicEnvVars(env))

\* options.env as given to the constructor
ConstructorEnvs ==
    {<< >>,
     <<Entry(<<"NEXT_PUBLIC_", "A">>, "v1")>>,
     <<Entry(<<"SECRET_KEY">>, "v1")>>,
     <<Entry(<<"SECRET_KEY">>, "v2")>>,
     <<Entry(<<"SECRET_KEY">>, "v1"), Entry(<<"NEXT_PUBLIC_", "A">>, "v1")>>,
     <<Entry(<<"NEXT_PUBLIC_", "A">>, "v1"), Entry(<<"SECRET_KEY">>, "v2")>>}

\* two servers constructed with environments that agree on the public
\* variables; no script generated yet
InitEnv ==
    /\ envs \in {e \in [Servers -> ConstructorEnvs] :
                    publicEnvVars(e["s1"]) = publicEnvVars(e["s2"])}
    /\ scripts = [s \in Servers |-> Null]

\* the same setEnv call on both servers
SetEnv(key, value) ==
    /\ \A s \in Servers : Len(setEnv(envs[s], key, value)) <= MaxEnvEntries
    /\ envs' = [s \in Servers |-> setEnv(envs[s], key, value)]
    /\ UNCHANGED scripts
    /\ UNCHANGED <<apiVars, cacheVars, appRouteVars, isoVars, routeVars,
                   hmrVars,
                   pairVars>>

\* a setEnv call on one server only, for a variable that is not public
SetPrivateEnv(s, key, value) ==
    /\ ~startsWith(key, PublicPrefix)
    /\ Len(setEnv(envs[s], key, value)) <= MaxEnvEntries
    /\ envs' = [envs EXCEPT ![s] = setEnv(@, key, value)]
    /\ UNCHANGED scripts
    /\ UNCHANGED <<apiVars, cacheVars, appRouteVars, isoVars, routeVars,
                   hmrVars,
                   pairVars>>

\* both servers generate their env script (a page is requested from each)
GenerateEnvScript ==
    /\ scripts' = [s \in Servers |-> generateEnvScript(envs[s])]
    /\ UNCHANGED envs
    /\ UNCHANGED <<apiVars, cacheVars, appRouteVars, isoVars, routeVars,
                   hmrVars,
                   pairVars>>

NextEnv ==
    \/ \E key \in EnvKeys, value \in EnvValues : SetEnv(key, value)
    \/ \E s \in Servers, key \in EnvKeys, value \in EnvValues :
          SetPrivateEnv(s, key, value)
    \/ GenerateEnvScript

----------------------------------------------------------------------------
(* startWatching / handleFileChange / stop *)

MaxStarts == 2

MaxRawEvents == 2

WatchedDirs == <<pagesDir, appDir, publicDir>>

\* the directories for which vfs.watch succeeds: all of them, or all but a
\* public directory that does not exist
WatchableDirs == {{pagesDir, appDir, publicDir}, {pagesDir, appDir}}

\* the events the filesystem delivers: the directory whose watchers are
\* called, the event type and the filename, which is relative to that
\* directory or an absolute path
RawInputs ==
    {[dir |-> pagesDir, eventType |-> "change",
      filename |-> <<FileName("index", ".jsx")>>, absolute |-> FALSE],
     [dir |-> pagesDir, eventType |-> "change",
      filename |-> pagesDir \o <<FileName("index", ".jsx")>>,
      absolute |-> TRUE],
     [dir |-> pagesDir, eventType |-> "rename",
      filename |-> <<FileName("index", ".jsx")>>, absolute |-> FALSE],
     [dir |-> pagesDir, eventType |-> "change",
      filename |-> <<Lit("api"), FileName("hello", ".js")>>,
      absolute |-> FALSE],
     [dir |-> pagesDir, eventType |-> "change",
      filename |-> <<FileName("util", ".ts")>>, absolute |-> FALSE],
     [dir |-> pagesDir, eventType |-> "change",
      filename |-> <<FileName("data", ".json")>>, absolute |-> FALSE],
     [dir |-> appDir, eventType |-> "change",
      filename |-> <<FileName("page", ".tsx")>>, absolute |-> FALSE],
     [dir |-> appDir, eventType |-> "change",
      filename |-> <<FileName("globals", ".css")>>, absolute |-> FALSE],
     [dir |-> publicDir, eventType |-> "change",
      filename |-> <<FileName("logo", ".png")>>, absolute |-> FALSE]}

\* the path a watcher callback passes to handleFileChange
fullPath(dir, filename, absolute) ==
    IF dir = publicDir THEN publicDir \o filename
    ELSE IF absolute THEN filename
    ELSE dir \o filename

\* a classification that takes every file for a source file
updateTypeAlwaysUpdate(path) == "update"

\* path.endsWith('.css'), /\.(jsx?|tsx?)$/.test(path)
updateType(path) ==
    LET ext == path[Len(path)].ext
        isCSS == ext = ".css"
        isJS == ext \in {".js", ".jsx", ".ts", ".tsx"}
    IN IF isCSS \/ isJS THEN "update" ELSE "full-reload"

\* the HMRUpdate that handleFileChange emits (its timestamp left out)
handleFileChange(path) == [type |-> updateType(path), path |-> path]

\* what one raw event adds to the emitted events: every watcher of the
\* directory calls handleFileChange for a change that names a file
Deliver(in, receivers) ==
    IF in.eventType = "change" /\ in.filename # << >>
    THEN [k \in 1..receivers |->
            handleFileChange(fullPath(in.dir, in.filename, in.absolute))]
    ELSE << >>

WatchersOf(dir) ==
    LET OnDir(w) == w.dir = dir
    IN SelectSeq(watchers, OnDir)

\* the number of startWatching calls made so far that left a watcher or
\* the cleanup function
Starts ==
    LET made == {watchers[k].call : k \in DOMAIN watchers}
                  \cup {watcherCleanup}
    IN CHOOSE n \in made : \A m \in made : m <= n

\* startWatching; ok holds the directories for which vfs.watch does not
\* throw
StartWatching(ok) ==
    LET IsWatched(dir) == dir \in ok /\ (dir = appDir => useAppRouter)
        dirs == SelectSeq(WatchedDirs, IsWatched)
    IN /\ Starts < MaxStarts
       /\ watchers' = watchers
                         \o [k \in DOMAIN dirs |->
                               [dir |-> dirs[k], call |-> Starts + 1]]
       /\ watcherCleanup' = Starts + 1
       /\ UNCHANGED <<rawEvents, emitted>>
       /\ UNCHANGED <<apiVars, cacheVars, appRouteVars, isoVars, routeVars,
                      envVars,
                      pairVars>>

\* stop: the cleanup function closes the watchers of the call that set it
Stop ==
    LET Kept(w) == w.call # watcherCleanup
    IN /\ watchers' = IF watcherCleanup # 0
                      THEN SelectSeq(watchers, Kept)
                      ELSE watchers
       /\ watcherCleanup' = 0
       /\ UNCHANGED <<rawEvents, emitted>>
       /\ UNCHANGED <<apiVars, cacheVars, appRouteVars, isoVars, routeVars,
                      envVars,
                      pairVars>>

\* the filesystem delivers a raw event to the watchers of a directory
RawEvent(in) ==
    LET receivers == Len(WatchersOf(in.dir))
    IN /\ Len(rawEvents) < MaxRawEvents
       /\ rawEvents' = Append(rawEvents,
                              [in |-> in, receivers |-> receivers])
       /\ emitted' = emitted \o Deliver(in, receivers)
       /\ UNCHANGED <<watchers, watcherCleanup>>
       /\ UNCHANGED <<apiVars, cacheVars, appRouteVars, isoVars, routeVars,
                      envVars,
                      pairVars>>

\* a server that is not watching, with or without an app directory
InitHmr ==
    /\ watchers = << >>
    /\ watcherCleanup = 0
    /\ rawEvents = << >>
    /\ emitted = << >>
    /\ fs = {}
    /\ listing = << >>
    /\ useAppRouter \in BOOLEAN
    /\ route = [op |-> "none"]
    /\ unreadable = {}

NextHmr ==
    \/ \E ok \in WatchableDirs : StartWatching(ok)
    \/ Stop
    \/ \E in \in RawInputs : RawEvent(in)

----------------------------------------------------------------------------
(* One handler, run against a streaming and a buffered mock response: the  *)
(* same calls, in the same order, are made on both                         *)

TwinSt == [res |-> twin, log |-> << >>]

\* createStreamingMockResponse and createMockResponse
CreateResponses ==
    /\ pc = "idle"
    /\ pc' = "handler"
    /\ mode' = "streaming"
    /\ res' = NewResponse
    /\ twin' = NewResponse
    /\ UNCHANGED <<settles, log, response, calls, byteCalls, termCalls>>
    /\ UNCHANGED thrown
    /\ UNCHANGED <<cacheVars, appRouteVars, isoVars, routeVars, envVars,
                   hmrVars>>

\* one call of the handler, made on both responses
PairCall(buffered, streaming, isByte, isTerm) ==
    /\ pc = "handler"
    /\ mode = "streaming"
    /\ calls < MaxCalls
    /\ twin' = buffered.res
    /\ res' = streaming.res
    /\ log' = streaming.log
    /\ calls' = calls + 1
    /\ byteCalls' = byteCalls + (IF isByte THEN 1 ELSE 0)
    /\ termCalls' = termCalls + (IF isTerm THEN 1 ELSE 0)
    /\ UNCHANGED <<pc, mode, settles, response>>
    /\ UNCHANGED thrown
    /\ UNCHANGED <<cacheVars, appRouteVars, isoVars, routeVars, envVars,
                   hmrVars>>

PairStatus ==
    \E code \in StatusArgs :
        PairCall(status(TwinSt, code), status(St, code), FALSE, FALSE)

PairSetHeader ==
    PairCall(setHeader(TwinSt, "X-Test", <<"v">>),
             setHeader(St, "X-Test", <<"v">>), FALSE, FALSE)

PairWrite ==
    \E chunk \in Chunks :
        PairCall(write(TwinSt, chunk), streamWrite(St, chunk), TRUE, FALSE)

PairJson ==
    \E o \in Objs :
        PairCall(json(TwinSt, o), streamJson(St, o), TRUE, TRUE)

PairSend ==
    \E data \in Chunks :
        PairCall(sendString(TwinSt, data), streamSendString(St, data),
                 TRUE, TRUE)

PairEnd ==
    \E data \in EndArgs :
        PairCall(end(TwinSt, data), streamEnd(St, data), data # << >>, TRUE)

PairRedirect ==
    \E url \in RedirectUrls :
        PairCall(redirectStatus(TwinSt, 301, url),
                 streamRedirectStatus(St, 301, url), FALSE, TRUE)

NextPair ==
    \/ CreateResponses
    \/ PairStatus
    \/ PairSetHeader
    \/ PairWrite
    \/ PairJson
    \/ PairSend
    \/ PairEnd
    \/ PairRedirect

----------------------------------------------------------------------------
(* Specifications *)

\* no App Router route handler request, no concurrent API request and no
\* route resolution has been made
IdleAppRoute == rh = [pc |-> "idle"]

IdleIso == optionsEnv = << >> /\ iso = << >>

IdleRoutes ==
    /\ fs = {}
    /\ listing = << >>
    /\ useAppRouter = FALSE
    /\ route = [op |-> "none"]
    /\ unreadable = {}

IdleEnv == envs = << >> /\ scripts = << >>

IdleHmr ==
    /\ watchers = << >>
    /\ watcherCleanup = 0
    /\ rawEvents = << >>
    /\ emitted = << >>

IdlePair == twin = NewResponse

Idle == IdleEnv /\ IdleHmr /\ IdlePair

Init == InitApi /\ InitCache /\ IdleAppRoute /\ IdleIso /\ IdleRoutes /\ Idle

\* the handler execution model
SpecApi == Init /\ [][NextApi]_vars

\* the handler execution model with the scheduling the runtime guarantees:
\* timers fire, settled promises run their continuations, and a handler
\* promise that settles does so eventually
SpecApiFair ==
    /\ Init
    /\ [][NextApi]_vars
    /\ WF_vars(HandlerReturns)
    /\ WF_vars(WaitForEndResolves)
    /\ WF_vars(Timeout)

\* the transform cache, requests interleaving
SpecCache == Init /\ [][NextCache]_vars

\* the transform cache, one request at a time
SpecCacheSeq == Init /\ [][NextCacheSeq]_vars

\* flat API requests in flight together
InitIsolation ==
    InitApi /\ InitCache /\ IdleAppRoute /\ InitIso /\ IdleRoutes /\ Idle

SpecIso == InitIsolation /\ [][NextIso]_vars

\* the route resolvers and the dispatch, applied to projects and pathnames
InitProject ==
    InitApi /\ InitCache /\ IdleAppRoute /\ IdleIso /\ InitRoutes /\ Idle

SpecRoutes == InitProject /\ [][NextRoutes]_vars

\* the App Router page resolver applied to trees with route groups,
\* optional catch-alls and convention files
InitTreeProject ==
    InitApi /\ InitCache /\ IdleAppRoute /\ IdleIso /\ InitTrees /\ Idle

SpecTrees == InitTreeProject /\ [][NextTrees]_vars

\* the resolvers on trees where they backtrack, with failing listings
InitBacktrackProject ==
    InitApi /\ InitCache /\ IdleAppRoute /\ IdleIso /\ InitBacktrack /\ Idle

SpecBacktrack == InitBacktrackProject /\ [][NextBacktrack]_vars

\* two servers and their env scripts
InitServers ==
    /\ InitApi /\ InitCache /\ IdleAppRoute /\ IdleIso /\ IdleRoutes
    /\ InitEnv /\ IdleHmr /\ IdlePair

SpecEnv == InitServers /\ [][NextEnv]_vars

\* file watching and the hmr-update events
InitWatching ==
    /\ InitApi /\ InitCache /\ IdleAppRoute /\ IdleIso /\ IdleEnv
    /\ InitHmr /\ IdlePair

SpecHmr == InitWatching /\ [][NextHmr]_vars

\* a streaming and a buffered response under the same handler calls
SpecPair == Init /\ [][NextPair]_vars

\* requests served by an App Router route handler file
SpecAppRoute == Init /\ [][NextAppRoute]_vars

----------------------------------------------------------------------------
(* Streaming callback ordering *)

Count(type) == Cardinality({i \in 1..Len(log) : log[i].type = type})

Completed == pc \in {"done", "replied"}

\* C1: in every call of handleStreamingRequest, whatever the handler does,
\* onStart is invoked at most once, before the first onChunk, and exactly
\* once when the call has completed.
C1_OnStartOnceBeforeFirstChunk ==
    mode = "streaming" =>
        /\ Count("start") <= 1
        /\ \A i \in 1..Len(log) :
              log[i].type = "chunk" =>
                  \E j \in 1..(i - 1) : log[j].type = "start"
        /\ Completed => Count("start") = 1

\* C2: in every call of handleStreamingRequest, whatever the handler does,
\* onEnd is invoked at most once, no onChunk follows it, and it has been
\* invoked exactly once when the call has completed.
C2_OnEndOnceAfterLastChunk ==
    mode = "streaming" =>
        /\ Count("end") <= 1
        /\ \A i \in 1..Len(log) :
              log[i].type = "end" =>
                  \A j \in (i + 1)..Len(log) : log[j].type # "chunk"
        /\ Completed => Count("end") = 1

----------------------------------------------------------------------------
(* The response state machine *)

\* C3: for a mock response of either mode and any sequence of calls, ended
\* never returns from true to false and the completion signal is resolved
\* at most once, also when a terminal method is called again.
C3_EndedOnceResolvedOnce ==
    [][(res.ended => res'.ended) /\ res'.resolved <= 1]_vars

\* a second terminal call was made on a response that had ended
C3_Witness ==
    /\ pc # "idle"
    /\ termCalls >= 2
    /\ res.ended
    /\ res.resolved = 1

\* C4: once a byte-producing call (write, json, send, end with data) has
\* been made, the headersSent property of the response object is true.
C4_HeadersSentByFirstByte ==
    byteCalls > 0 => res.headersSentProp

----------------------------------------------------------------------------
(* Completion of a request *)

\* C5: every request whose handler was invoked eventually completes with a
\* response, also when the promise returned by the handler never settles.
C5_HandlerFoundLeadsToResponse ==
    (pc = "handler") ~> (pc = "done")

----------------------------------------------------------------------------
(* The transform cache *)

SamePathAsBefore == prevDone.path # 0 /\ lastDone.path = prevDone.path

C7_CacheBounded == Len(cache) <= CacheLimit

\* the cache is full after an eviction
C7_Witness == Len(cache) = CacheLimit /\ lastEvicted # "none"

MissBegins(r) == inflight'[r] > inflight[r]

\* C9 as stated: a request is a hit exactly when the content read is the
\* one the stored entry was compiled from, and a request that reads a
\* content compiled for that path before (a revert) is a hit.
C9_RevertToAnyPriorContentHits ==
    [][/\ lastDone'.outcome = "hit" => lastDone'.fresh
       /\ \A r \in Reads :
             MissBegins(r) =>
                 /\ hist[r[1]].current # r[2]
                 /\ hist[r[1]].previous # r[2]]_vars

\* C9 as amended: a request is a hit exactly when the content read is the
\* one the entry now stored for the path was compiled from, whatever was
\* written to the file in between; a revert to that content is a hit.
C9_HitIffStoredContent ==
    [][/\ lastDone'.outcome = "hit" => lastDone'.fresh
       /\ \A r \in Reads : MissBegins(r) => hist[r[1]].current # r[2]]_vars

\* a hit on a file that was written and reverted since its entry was stored
C9_Witness == lastDone.outcome = "hit" /\ lastDone.reverted

\* C10: when the transform throws, the response is 200 with a JavaScript
\* content type and the substitute script, and the cache is unchanged.
C10_TransformFaultLeavesCache ==
    [][(Returns /\ lastDone'.outcome = "error") =>
          /\ cache' = cache
          /\ lastDone'.response.statusCode = 200
          /\ lastDone'.response.headers["Content-Type"] =
                "application/javascript; charset=utf-8"
          /\ \E message \in TransformErrors :
                lastDone'.response.body = ErrorBody(message)]_vars

\* a transform threw for a path whose earlier entry is still in the cache
C10_Witness ==
    /\ lastDone.outcome = "error"
    /\ lastDone.path \in Keys(cache)

----------------------------------------------------------------------------
(* Faults of a flat API handler *)

----------------------------------------------------------------------------
(* App Router route handlers *)

\* the module has no own function export named as the method in upper or
\* in lower case
NoFunctionFor(exps, method) ==
    \A key \in {ToUpperCase(method), ToLowerCase(method)} :
        key \in DOMAIN exps => exps[key] # "function"

\* C11: when the route file was loaded and exports no function for the
\* requested method, in either case of the method's name, the response is
\* 405 (and so never 404).
C11_NoExportGives405 ==
    (rh.pc = "done" /\ rh.loaded /\ NoFunctionFor(rh.exports, rh.method)) =>
        rh.response.statusCode = 405

----------------------------------------------------------------------------
(* Isolation of flat API requests in flight together *)

RECURSIVE Replay(_, _, _)
\* the mock response and process.env of request i after its handler made
\* the calls ops, starting from a new response and the env copy env0
Replay(i, ops, env0) ==
    IF ops = << >> THEN [res |-> NewResponse, env |-> env0]
    ELSE ApplyOp(i, Replay(i, SubSeq(ops, 1, Len(ops) - 1), env0),
                 ops[Len(ops)])

\* a step in which the handler of request i makes a call
HandlerStep(i) == iso'[i].made # iso[i].made

\* C13: with several API requests in flight, the response of a completed
\* request is what its own handler's calls produce on a new mock response
\* (or the 500 of its own fault), its process.env is what its own writes
\* made of the server's env at its start, and a call made by one handler
\* changes neither another request nor the env that getEnv() returns.
C13_RequestsIsolated ==
    /\ [](\A i \in Requests :
            /\ iso[i].pc # "idle" =>
                   iso[i].env = Replay(i, iso[i].made, iso[i].env0).env
            /\ iso[i].pc = "done" =>
                   iso[i].response =
                      IF iso[i].fault # << >>
                      THEN FaultResponse(iso[i].fault)
                      ELSE toResponse(
                              Replay(i, iso[i].made, iso[i].env0).res))
    /\ [][\A i \in Requests :
            HandlerStep(i) =>
                /\ optionsEnv' = optionsEnv
                /\ \A j \in Requests \ {i} : iso'[j] = iso[j]]_vars

\* both requests in flight at once changed their process.env and wrote it,
\* and one of them has completed while the other is still running
C13_Witness ==
    /\ iso # << >>
    /\ iso["r1"].pc = "done"
    /\ iso["r1"].fault = << >>
    /\ iso["r1"].made = <<"setEnv", "end">>
    /\ iso["r2"].pc = "handler"
    /\ iso["r2"].made = <<"setEnv", "writeEnv">>
    /\ iso["r2"].res.responseBody = <<"r2">>
    /\ optionsEnv["K"] = "s1"

----------------------------------------------------------------------------
(* Route resolution *)

\* the last entry name of a path
Last(path) == path[Len(path)]

\* C14: with the App Router in use, a pathname that resolves both to a
\* nested route.<ext> and to a flat API file is served by the nested route
\* handler file.
C14_RouteHandlerBeforeFlatApi ==
    (/\ route.op = "handleRequest"
     /\ useAppRouter
     /\ resolveAppRouteHandler(route.url) # Null
     /\ resolveApiFile(route.url) # Null) =>
        /\ route.served.by = "handleAppRouteHandler"
        /\ route.served.file = resolveAppRouteHandler(route.url)
        /\ Last(route.served.file).text = "route"
        /\ SubSeq(route.served.file, 1, 1) = appDir

\* /api/hello with both app/api/hello/route.ts and pages/api/hello.js
C14_Witness ==
    /\ route.op = "handleRequest"
    /\ route.url = <<"api", "hello">>
    /\ useAppRouter
    /\ appDir \o <<Lit("api"), Lit("hello"), FileName("route", ".ts")>>
           \in fs
    /\ pagesDir \o <<Lit("api"), FileName("hello", ".js")>> \in fs
    /\ route.served.by = "handleAppRouteHandler"


\* the directory a file is in
DirOf(path) == SubSeq(path, 1, Len(path) - 1)

\* dirPath and the directories above it
UpTo(dirPath) == {SubSeq(dirPath, 1, n) : n \in 1..Len(dirPath)}

HasLayoutFile(dirPath) ==
    \E k \in DOMAIN AppExtensions :
        Append(dirPath, FileName("layout", AppExtensions[k])) \in fs

\* the App resolver found a page
AppResolved == route.op = "resolveAppRoute" /\ route.app.found

\* C15: the layouts of a resolved route are ordered outermost first: the
\* directory of each layout is the directory of the next one or above it,
\* and the directories they come from are exactly the directories with a
\* layout file from the app root down to the page.
C15_LayoutsOutermostFirst ==
    AppResolved =>
        LET layouts == route.app.layouts IN
        /\ \A i \in 1..(Len(layouts) - 1) :
              \/ DirOf(layouts[i]) = DirOf(layouts[i + 1])
              \/ IsProperPrefix(DirOf(layouts[i]), DirOf(layouts[i + 1]))
        /\ {DirOf(layouts[i]) : i \in DOMAIN layouts} =
              {d \in UpTo(DirOf(route.app.page)) : HasLayoutFile(d)}

\* layouts at the root, at level 1 and at level 2 give exactly these three
C15_Witness ==
    /\ AppResolved
    /\ route.url = <<"blog", "post">>
    /\ route.app.layouts =
          <<appDir \o <<FileName("layout", ".tsx")>>,
            appDir \o <<Lit("blog"), FileName("layout", ".tsx")>>,
            appDir \o <<Lit("blog"), Lit("post"), FileName("layout", ".js")>>>>


\* C16: the layouts of a resolved route hold no path twice, and no two of
\* them come from the same directory.
C16_OneLayoutPerDirectory ==
    AppResolved =>
        LET layouts == route.app.layouts IN
        \A i, j \in DOMAIN layouts :
            i # j => /\ layouts[i] # layouts[j]
                     /\ DirOf(layouts[i]) # DirOf(layouts[j])


\* C17 as claimed: on any tree, when layouts is not empty its first entry
\* is a layout file of the app root.
C17_FirstLayoutIsRootLayout ==
    (AppResolved /\ route.app.layouts # << >>) =>
        DirOf(route.app.layouts[1]) = appDir

\* the outermost directory, from the app root down to dirPath, that holds
\* a layout file
OutermostLayoutDir(dirPath) ==
    LET dirs == {d \in UpTo(dirPath) : HasLayoutFile(d)}
    IN CHOOSE d \in dirs : \A e \in dirs : Len(d) <= Len(e)

\* C17 amended: when the app root holds a layout file, the first entry of
\* layouts is the root layout, the first one in the order of extensions;
\* when it holds none, the first entry, if any, is the layout of the
\* outermost directory on the page's path that holds one.
C17_FirstLayoutIsOutermost ==
    AppResolved =>
        LET layouts == route.app.layouts IN
        /\ HasLayoutFile(appDir) =>
              /\ layouts # << >>
              /\ layouts[1] = FirstExisting(appDir, "layout", AppExtensions)
        /\ (~HasLayoutFile(appDir) /\ layouts # << >>) =>
              DirOf(layouts[1]) = OutermostLayoutDir(DirOf(route.app.page))

\* a route resolved with layouts in a tree whose app root holds no layout
C17_Witness ==
    /\ AppResolved
    /\ ~HasLayoutFile(appDir)
    /\ Len(route.app.layouts) = 2


\* dirPath holds a single-dynamic entry [name]
HasDynamicEntry(dirPath) ==
    \E entry \in Children(dirPath) : entry.kind = "dyn"

\* the literal branch below root for the first n segments of url resolves
\* the rest of url
AppLiteralResolves(url, n) ==
    /\ isDirectory(Descend(appDir, SubSeq(url, 1, n)))
    /\ AppTryPath(Descend(appDir, SubSeq(url, 1, n)),
                  SubSeq(url, n + 1, Len(url)), << >>, << >>).found

PagesLiteralResolves(url, n) ==
    LET literal == Descend(pagesDir, SubSeq(url, 1, n)) IN
    \/ n = Len(url) /\ WithExtension(literal, PageExtensions) # Null
    \/ /\ isDirectory(literal)
       /\ PagesTryPath(literal, SubSeq(url, n + 1, Len(url))) # Null

\* C18: when a literal directory and a single-dynamic entry are siblings
\* and the literal branch resolves the pathname, the App resolver and the
\* Pages resolver return the file found on the literal branch.
C18_LiteralBeforeDynamic ==
    /\ route.op = "resolveAppRoute" =>
          \A n \in 1..Len(route.url) :
             (/\ HasDynamicEntry(Descend(appDir, SubSeq(route.url, 1, n - 1)))
              /\ AppLiteralResolves(route.url, n)) =>
                 /\ route.app.found
                 /\ SubSeq(route.app.page, 1, n + 1) =
                       Descend(appDir, SubSeq(route.url, 1, n))
    /\ route.op = "resolvePageFile" =>
          \A n \in 1..Len(route.url) :
             (/\ HasDynamicEntry(Descend(pagesDir,
                                         SubSeq(route.url, 1, n - 1)))
              /\ PagesLiteralResolves(route.url, n)) =>
                 /\ route.file # Null
                 /\ route.file[n + 1].kind = "lit"
                 /\ route.file[n + 1].text = route.url[n]

\* /blog/post with the siblings post and [id] under blog, in the App
\* project; the Pages project has post.jsx or post/ beside [id].jsx
C18_Witness ==
    \/ /\ AppResolved
       /\ route.url = <<"blog", "post">>
       /\ appDir \o <<Lit("blog"), Dyn("id"), FileName("page", ".tsx")>>
             \in fs
       /\ route.app.page =
             appDir \o <<Lit("blog"), Lit("post"), FileName("page", ".tsx")>>
    \/ /\ route.op = "resolvePageFile"
       /\ route.url = <<"blog", "post">>
       /\ pagesDir \o <<Lit("blog"), DynFile("id", ".jsx")>> \in fs
       /\ route.file # Null
       /\ route.file[3].text = "post"


RouteLiteralResolves(url, n) ==
    \/ findRoute(Descend(appDir, url)) # Null
    \/ /\ isDirectory(Descend(appDir, SubSeq(url, 1, n)))
       /\ RouteTryPath(Descend(appDir, SubSeq(url, 1, n)),
                       SubSeq(url, n + 1, Len(url))) # Null

\* in the App project, [name] and [...name] under the directory of the
\* first n - 1 segments can both resolve the rest of url, and the literal
\* directory cannot
AppBothResolve(url, n) ==
    LET dirPath == Descend(appDir, SubSeq(url, 1, n - 1)) IN
    /\ \E entry \in Children(dirPath) :
          /\ IsSingleDynamic(entry)
          /\ AppTryPath(Append(dirPath, entry),
                        SubSeq(url, n + 1, Len(url)), << >>, << >>).found
    /\ \E entry \in Children(dirPath) :
          /\ IsCatchAll(entry)
          /\ AppTryPath(Append(dirPath, entry), << >>, << >>, << >>).found
    /\ ~AppLiteralResolves(url, n)

PagesBothResolve(url, n) ==
    LET dirPath == Descend(pagesDir, SubSeq(url, 1, n - 1)) IN
    /\ \E entry \in Children(dirPath) :
          \/ /\ entry.kind = "dyn" /\ entry.ext # "" /\ n = Len(url)
          \/ /\ IsSingleDynamic(entry)
             /\ PagesTryPath(Append(dirPath, entry),
                             SubSeq(url, n + 1, Len(url))) # Null
    /\ \E entry \in Children(dirPath) : IsCatchAllFile(entry)
    /\ ~PagesLiteralResolves(url, n)

RouteBothResolve(url, n) ==
    LET dirPath == Descend(appDir, SubSeq(url, 1, n - 1)) IN
    /\ \E entry \in Children(dirPath) :
          /\ IsSingleDynamic(entry)
          /\ RouteTryPath(Append(dirPath, entry),
                          SubSeq(url, n + 1, Len(url))) # Null
    /\ \E entry \in Children(dirPath) :
          /\ IsCatchAll(entry)
          /\ RouteTryPath(Append(dirPath, entry), << >>) # Null
    /\ ~RouteLiteralResolves(url, n)

\* C19 in the App resolver
C19_App ==
    route.op = "resolveAppRoute" =>
        \A n \in 1..Len(route.url) :
            AppBothResolve(route.url, n) =>
                route.app.found /\ route.app.page[n + 1].kind = "dyn"

\* C19 in the Pages resolver
C19_Pages ==
    route.op = "resolvePageFile" =>
        \A n \in 1..Len(route.url) :
            PagesBothResolve(route.url, n) =>
                route.file # Null /\ route.file[n + 1].kind = "dyn"

\* C19 in the route handler resolver
C19_RouteHandler ==
    route.op = "resolveAppRouteHandler" =>
        \A n \in 1..Len(route.url) :
            RouteBothResolve(route.url, n) =>
                route.file # Null /\ route.file[n + 1].kind = "dyn"

\* C19: when [name] and [...name] are entries of the same directory and
\* both can resolve the pathname, the file found through [name] is
\* returned, whatever the order of the directory listing, by the App
\* resolver, the Pages resolver and the route handler resolver.
C19_DynamicBeforeCatchAll == C19_App /\ C19_Pages /\ C19_RouteHandler


RECURSIVE ExpectedParams(_, _)
\* the parameters bound when the directories dirs, taken from the app root
\* down to the page, consume the segments: a route group consumes none, a
\* literal or [name] directory one, [...name] all that remain
ExpectedParams(dirs, segments) ==
    IF dirs = << >> THEN << >>
    ELSE LET entry == Head(dirs) IN
         CASE IsRouteGroup(entry) -> ExpectedParams(Tail(dirs), segments)
           [] IsSingleDynamic(entry) ->
                (entry.text :> [list |-> FALSE, segs |-> <<Head(segments)>>])
                    @@ ExpectedParams(Tail(dirs), Tail(segments))
           [] IsCatchAll(entry) \/ IsOptionalCatchAll(entry) ->
                (entry.text :> [list |-> TRUE, segs |-> segments])
           [] OTHER -> ExpectedParams(Tail(dirs), Tail(segments))

RECURSIVE Consumes(_, _)
\* the directories dirs consume exactly the segments
Consumes(dirs, segments) ==
    IF dirs = << >> THEN segments = << >>
    ELSE LET entry == Head(dirs) IN
         CASE IsRouteGroup(entry) -> Consumes(Tail(dirs), segments)
           [] IsSingleDynamic(entry) ->
                segments # << >> /\ Consumes(Tail(dirs), Tail(segments))
           [] IsCatchAll(entry) \/ IsOptionalCatchAll(entry) ->
                segments # << >> /\ Tail(dirs) = << >>
           [] OTHER ->
                /\ segments # << >>
                /\ entry.text = Head(segments)
                /\ Consumes(Tail(dirs), Tail(segments))

\* the directories of the resolved page below the app root
PageDirs == SubSeq(route.app.page, 2, Len(route.app.page) - 1)

\* C20: in a route of the App resolver, [...name] consumes all remaining
\* segments and binds name to their ordered list, and [name] consumes
\* exactly one segment and binds name to that segment string.
C20_ParamsBindSegments ==
    AppResolved =>
        /\ Consumes(PageDirs, route.url)
        /\ route.app.params = ExpectedParams(PageDirs, route.url)

\* /blog/x/y through blog/[...slug]: slug is the list x, y
C20_Witness ==
    /\ AppResolved
    /\ route.url = <<"blog", "x", "y">>
    /\ route.app.page[3] = CatchAll("slug")
    /\ route.app.params["slug"] = [list |-> TRUE, segs |-> <<"x", "y">>]

----------------------------------------------------------------------------
(* Optional catch-all directories *)

OptionalCatchAllPage ==
    appDir \o <<Lit("docs"), OptCatchAll("slug"), FileName("page", ".tsx")>>

\* C21: an optional catch-all directory [[...name]] matches a URL with zero
\* remaining segments at that level as well as one with one or more: with the
\* page docs/[[...slug]]/page, both /docs and /docs/a (and longer) resolve to
\* that page
C21_OptionalCatchAllMatchesZeroOrMore ==
    (/\ route.op = "resolveAppRoute"
     /\ OptionalCatchAllPage \in fs
     /\ Len(route.url) >= 1
     /\ route.url[1] = "docs")
    => /\ route.app.found
       /\ route.app.page = OptionalCatchAllPage

\* with one or more remaining segments the page is found and the parameter
\* holds all of them
C21_OneOrMoreSegmentsMatch ==
    (/\ route.op = "resolveAppRoute"
     /\ OptionalCatchAllPage \in fs
     /\ Len(route.url) >= 2
     /\ route.url[1] = "docs")
    => /\ route.app.found
       /\ route.app.page = OptionalCatchAllPage
       /\ route.app.params = ("slug" :> ParamList(Tail(route.url)))

----------------------------------------------------------------------------
(* Route groups *)

MarketingGroup == appDir \o <<Group("marketing")>>

\* a layout file that lies directly in a route-group directory
IsGroupLayout(path) ==
    /\ IsRouteGroup(path[Len(path) - 1])
    /\ path[Len(path)].text = "layout"

\* C22: route groups are transparent: when the group holds no layout of its
\* own, a pathname resolves on the tree with the pages under the route group
\* exactly when it resolves on the tree with the same pages outside a group,
\* to the corresponding page, with the same params and the same layouts
C22_RouteGroupsTransparent ==
    (/\ route.op = "resolveWithoutGroups"
     /\ \A f \in route.moved : ~IsGroupLayout(f))
    => /\ route.grouped.found = route.app.found
       /\ route.grouped.found =>
            /\ route.app.page = WithoutGroups(route.grouped.page)
            /\ route.app.params = route.grouped.params
            /\ route.app.layouts =
                 [k \in DOMAIN route.grouped.layouts |->
                    WithoutGroups(route.grouped.layouts[k])]

C22_Witness ==
    /\ route.op = "resolveWithoutGroups"
    /\ route.url = <<"about">>
    /\ \A f \in route.moved : ~IsGroupLayout(f)
    /\ route.grouped.found
    /\ route.grouped.page =
         MarketingGroup \o <<Lit("about"), FileName("page", ".tsx")>>
    /\ route.app.page = appDir \o <<Lit("about"), FileName("page", ".tsx")>>
    /\ Len(route.app.layouts) = 2

\* C23: at the terminal directory a page inside a route-group child satisfies
\* the URL when the directory has no page of its own: with /app/layout.tsx and
\* /app/(marketing)/page.tsx, and no layout in the group, URL / resolves to
\* that page with layouts equal to [root layout]
C23_GroupPageAtTerminalDirectory ==
    (/\ route.op = "resolveAppRoute"
     /\ route.url = << >>
     /\ Append(appDir, FileName("layout", ".tsx")) \in fs
     /\ Append(MarketingGroup, FileName("page", ".tsx")) \in fs
     /\ ~HasLayoutFile(MarketingGroup)
     /\ findPage(appDir) = Null)
    => /\ route.app.found
       /\ route.app.page = Append(MarketingGroup, FileName("page", ".tsx"))
       /\ route.app.layouts = <<Append(appDir, FileName("layout", ".tsx"))>>
       /\ route.app.params = << >>

C23_Witness ==
    /\ route.op = "resolveAppRoute"
    /\ route.url = << >>
    /\ fs = {Append(appDir, FileName("layout", ".tsx")),
             Append(MarketingGroup, FileName("page", ".tsx"))}
    /\ route.app.page = Append(MarketingGroup, FileName("page", ".tsx"))
    /\ route.app.layouts = <<Append(appDir, FileName("layout", ".tsx"))>>

----------------------------------------------------------------------------
(* loading, error and not-found files *)

DefinesConvention(dirPath, name) ==
    \E k \in DOMAIN AppExtensions :
        Append(dirPath, FileName(name, AppExtensions[k])) \in fs

\* the file of the innermost directory, from dirPath up to the app root,
\* that defines the convention; Null when none does
NearestConvention(dirPath, name) ==
    LET dirs == {d \in UpTo(dirPath) : DefinesConvention(d, name)}
    IN IF dirs = {} THEN Null
       ELSE FirstExisting(CHOOSE d \in dirs : \A e \in dirs : Len(e) <= Len(d),
                          name, AppExtensions)

\* C24: for each of loading, error and not-found, the resolved App route
\* carries the file of the nearest directory, walking up from the page's
\* directory to the app root, that defines that convention; each of the
\* three is resolved on its own, and one defined nowhere on the path is
\* absent
C24_NearestConventionFiles ==
    AppResolved =>
        LET pageDir == DirOf(route.app.page) IN
        /\ route.app.loading = NearestConvention(pageDir, "loading")
        /\ route.app.error = NearestConvention(pageDir, "error")
        /\ route.app.notFound = NearestConvention(pageDir, "not-found")

\* the three files come from three different directories
C24_Witness ==
    /\ AppResolved
    /\ route.app.page =
         appDir \o <<Lit("docs"), Dyn("id"), FileName("page", ".tsx")>>
    /\ route.app.loading =
         appDir \o <<Lit("docs"), Dyn("id"), FileName("loading", ".tsx")>>
    /\ route.app.error = appDir \o <<Lit("docs"), FileName("error", ".tsx")>>
    /\ route.app.notFound = appDir \o <<FileName("not-found", ".tsx")>>

----------------------------------------------------------------------------
(* resolvePageFile *)

\* the extensions, by their place in the order of PageExtensions, for which
\* dirPath/base<ext> is a file
ExistingExtensions(dirPath, base) ==
    {k \in DOMAIN PageExtensions :
        Append(dirPath, FileName(base, PageExtensions[k])) \in fs}

\* C25: the Pages resolver maps / to the index file and, for any other path,
\* returns the first hit of: the exact file with a supported extension, then
\* <path>/index.<ext>, then a dynamic or catch-all match; it returns no file
\* when none applies.  With /pages/index.jsx and /pages/about.jsx only, /
\* gives the index file, /about the about file and /xyz no file.
C25_PagesResolutionOrder ==
    route.op = "resolvePageFile" =>
        LET segments == IF route.url = << >> THEN <<"index">> ELSE route.url
            dirPath == Descend(pagesDir, SubSeq(segments, 1, Len(segments) - 1))
            base == segments[Len(segments)]
            exact == ExistingExtensions(dirPath, base)
            index == ExistingExtensions(Append(dirPath, Lit(base)), "index")
            indexJsx == Append(pagesDir, FileName("index", ".jsx"))
            aboutJsx == Append(pagesDir, FileName("about", ".jsx"))
        IN
        /\ exact # {} =>
             route.file =
               Append(dirPath, FileName(base, PageExtensions[Min(exact)]))
        /\ (exact = {} /\ index # {}) =>
             route.file =
               dirPath \o <<Lit(base),
                            FileName("index", PageExtensions[Min(index)])>>
        /\ (exact = {} /\ index = {}) =>
             /\ route.file = resolveDynamicRoute(segments)
             /\ route.file # Null =>
                  \E k \in DOMAIN route.file :
                      route.file[k].kind \in {"dyn", "catchall"}
        /\ fs = {indexJsx, aboutJsx} =>
             /\ route.url = << >> => route.file = indexJsx
             /\ route.url = <<"about">> => route.file = aboutJsx
             /\ route.url = <<"xyz">> => route.file = Null

\* the exact file and the index file of the directory of the same name both
\* exist, and the exact file is returned
C25_Witness ==
    /\ route.op = "resolvePageFile"
    /\ route.url = <<"blog", "post">>
    /\ pagesDir \o <<Lit("blog"), Lit("post"), FileName("index", ".tsx")>>
         \in fs
    /\ route.file = pagesDir \o <<Lit("blog"), FileName("post", ".jsx")>>

----------------------------------------------------------------------------
(* Public files and /api/ requests in the dispatch *)

PublicPath(url) == publicDir \o Descend(<< >>, url)

IsNextRoute(url) == Len(url) >= 1 /\ url[1] = "_next"

IsApiPath(url) == Len(url) >= 2 /\ url[1] = "api"

\* C26: a request whose path names an existing non-directory file in the
\* public directory, and that is not a /_next/ route, a nested route handler
\* or an /api/ path, is answered with that file; page-route resolution is
\* not attempted for it, even when a page route would also match
C26_PublicFileBeforePageRoute ==
    (/\ route.op = "handleRequest"
     /\ PublicPath(route.url) \in fs
     /\ ~IsNextRoute(route.url)
     /\ ~(useAppRouter /\ resolveAppRouteHandler(route.url) # Null)
     /\ ~IsApiPath(route.url))
    => route.served = Served("serveFile", PublicPath(route.url))

\* /about is a public file and a page as well, and the public file is served
C26_Witness ==
    /\ route.op = "handleRequest"
    /\ route.url = <<"about">>
    /\ PublicPath(route.url) \in fs
    /\ resolvePageFile(route.url) # Null
    /\ ~useAppRouter
    /\ route.served = Served("serveFile", PublicPath(route.url))

\* C27: a request under /api/ for which no nested route handler and no flat
\* API file resolves gets a 404 JSON response with error 'API route not
\* found'; it never falls through to public files, direct file serving or
\* page routes
C27_UnresolvedApiGives404 ==
    (/\ route.op = "handleRequest"
     /\ IsApiPath(route.url)
     /\ ~(useAppRouter /\ resolveAppRouteHandler(route.url) # Null)
     /\ resolveApiFile(route.url) = Null)
    => /\ route.served = Served("handleApiRoute", Null)
       /\ route.response.statusCode = 404
       /\ route.response.headers = JsonHeaders
       /\ route.response.body = ErrorJson(<<"API route not found">>)

\* /api/x/y resolves to no handler and no API file while /public/api/x/y is
\* a file
C27_Witness ==
    /\ route.op = "handleRequest"
    /\ route.url = <<"api", "x", "y">>
    /\ PublicPath(route.url) \in fs
    /\ route.served = Served("handleApiRoute", Null)
    /\ route.response.statusCode = 404

----------------------------------------------------------------------------
(* The env script *)

----------------------------------------------------------------------------
(* hmr-update events *)

UpdateExtensions == {".css", ".js", ".jsx", ".ts", ".tsx"}

\* the paths of the raw change events that reached a watcher, each as many
\* times as watchers received it
RECURSIVE Delivered(_)
Delivered(raw) ==
    IF raw = << >> THEN << >>
    ELSE LET last == raw[Len(raw)] IN
         Delivered(SubSeq(raw, 1, Len(raw) - 1))
           \o (IF last.in.eventType = "change"
               THEN [k \in 1..last.receivers |->
                       fullPath(last.in.dir, last.in.filename,
                                last.in.absolute)]
               ELSE << >>)

\* C29: handleFileChange classifies a changed path as update when it ends in
\* .css, .js, .jsx, .ts or .tsx and as full-reload otherwise, and the emitted
\* event carries that same path
C29_ChangeClassifiedByExtension ==
    /\ \A k \in DOMAIN emitted :
         /\ emitted[k].path[Len(emitted[k].path)].ext \in UpdateExtensions
              => emitted[k].type = "update"
         /\ emitted[k].path[Len(emitted[k].path)].ext \notin UpdateExtensions
              => emitted[k].type = "full-reload"
    /\ [k \in DOMAIN emitted |-> emitted[k].path] = Delivered(rawEvents)

\* events of both types have been emitted: a stylesheet and a static asset
C29_Witness ==
    /\ \E k \in DOMAIN emitted :
         /\ emitted[k].type = "update"
         /\ emitted[k].path = appDir \o <<FileName("globals", ".css")>>
    /\ \E k \in DOMAIN emitted :
         /\ emitted[k].type = "full-reload"
         /\ emitted[k].path = publicDir \o <<FileName("logo", ".png")>>

\* the paths of the raw change events on a directory that was watched, each
\* once
RECURSIVE OncePerChange(_)
OncePerChange(raw) ==
    IF raw = << >> THEN << >>
    ELSE LET last == raw[Len(raw)] IN
         OncePerChange(SubSeq(raw, 1, Len(raw) - 1))
           \o (IF last.in.eventType = "change" /\ last.receivers >= 1
               THEN <<fullPath(last.in.dir, last.in.filename,
                               last.in.absolute)>>
               ELSE << >>)

\* C30: while the server is watching, every raw change event on a watched
\* directory yields exactly one emitted hmr-update event, in the order the
\* raw events arrive; a burst of events for the same path is not merged or
\* dropped
C30_OneEventPerRawChange ==
    [k \in DOMAIN emitted |-> emitted[k].path] = OncePerChange(rawEvents)

\* as long as no directory has had two watchers at once, each raw change
\* event on a watched directory has yielded exactly one event, in order
C30_OneEventPerChangeAndWatcher ==
    (\A k \in DOMAIN rawEvents : rawEvents[k].receivers <= 1)
    => [j \in DOMAIN emitted |-> emitted[j].path] = OncePerChange(rawEvents)

\* two events for the same path in a row yield two emitted events
C30_BurstKept ==
    /\ Len(rawEvents) = 2
    /\ rawEvents[1] = rawEvents[2]
    /\ rawEvents[1].in.eventType = "change"
    /\ rawEvents[1].receivers = 1
    /\ Len(emitted) = 2

----------------------------------------------------------------------------
(* Parameters of route handlers *)

\* the directories of the served route file below the app root
RouteDirs == SubSeq(route.served.file, 2, Len(route.served.file) - 1)

ServedByRouteHandler ==
    /\ route.op = "handleRequest"
    /\ route.served.by = "handleAppRouteHandler"

\* C31: a nested route handler is invoked with params equal to the bindings
\* of the dynamic segments of its own matched route path, also when the
\* route directory holds a route file and no page file (api/[id]/route.ts
\* requested at /api/x receives id = 'x')
C31_RouteHandlerParams ==
    ServedByRouteHandler =>
        route.params = ExpectedParams(RouteDirs, route.url)

\* the request /api/x served by app/api/[id]/route.ts with no page beside it
C31_DynamicRouteWithoutPage ==
    /\ ServedByRouteHandler
    /\ route.url = <<"api", "x">>
    /\ route.served.file = appDir \o <<Lit("api"), Dyn("id"),
                                       FileName("route", ".ts")>>
    /\ route.params = << >>

----------------------------------------------------------------------------
(* Backtracking *)

\* the file lies in the tree of root, is named base.<ext> with one of the
\* extensions, and the directories from the root down to it consume url
BranchResolves(f, root, base, extensions, url) ==
    /\ Len(f) >= 2
    /\ SubSeq(f, 1, 1) = root
    /\ Last(f).kind = "lit"
    /\ Last(f).text = base
    /\ Last(f).ext \in Range(extensions)
    /\ Consumes(SubSeq(f, 2, Len(f) - 1), url)

RECURSIVE PagesConsumes(_, _)
\* the entries below the pages root, a file name last, consume the segments:
\* <name>.<ext> and [name].<ext> the last one, index.<ext> none,
\* [...name].<ext> all that remain
PagesConsumes(entries, segments) ==
    LET entry == Head(entries) IN
    IF Len(entries) = 1
    THEN /\ entry.ext \in Range(PageExtensions)
         /\ CASE entry.kind = "catchall" -> segments # << >>
              [] entry.kind = "dyn" -> Len(segments) = 1
              [] entry.kind = "lit" ->
                    \/ segments = <<entry.text>>
                    \/ entry.text = "index" /\ segments = << >>
              [] OTHER -> FALSE
    ELSE /\ segments # << >>
         /\ entry.ext = ""
         /\ \/ entry.kind = "lit" /\ entry.text = Head(segments)
            \/ entry.kind = "dyn"
         /\ PagesConsumes(Tail(entries), Tail(segments))

PagesBranchResolves(f, url) ==
    /\ Len(f) >= 2
    /\ SubSeq(f, 1, 1) = pagesDir
    /\ PagesConsumes(Tail(f), url)

C32_App ==
    (route.op = "resolveAppRoute" /\ unreadable = {} /\ ~route.app.found) =>
        \A f \in fs : ~BranchResolves(f, appDir, "page", AppExtensions,
                                      route.url)

C32_Pages ==
    (route.op = "resolvePageFile" /\ unreadable = {} /\ route.file = Null) =>
        \A f \in fs : ~PagesBranchResolves(f, IF route.url = << >>
                                              THEN <<"index">>
                                              ELSE route.url)

C32_RouteHandler ==
    (/\ route.op = "resolveAppRouteHandler"
     /\ unreadable = {}
     /\ route.file = Null) =>
        \A f \in fs : ~BranchResolves(f, appDir, "route", RouteExtensions,
                                      route.url)

\* C32: resolution backtracks fully, in the App, Pages and route-handler
\* resolvers: a pathname is reported not found only if no branch of the
\* tree resolves it
C32_NotFoundOnlyIfNoBranchResolves == C32_App /\ C32_Pages /\ C32_RouteHandler

\* every route group on the way to the file holds the next directory under
\* its literal name
GroupsHoldLiterals(f) ==
    \A k \in 1..(Len(f) - 2) : IsRouteGroup(f[k]) => f[k + 1].kind = "lit"

\* what does hold: a literal directory that resolves nothing does not end
\* the search, and the branches through sibling route groups, dynamic and
\* catch-all directories are found, as long as no route group on the branch
\* is followed by another group or by a dynamic directory
C32_BacktracksFromLiteral ==
    /\ (route.op = "resolveAppRoute" /\ unreadable = {} /\ ~route.app.found)
        => \A f \in fs :
              GroupsHoldLiterals(f) =>
                ~BranchResolves(f, appDir, "page", AppExtensions, route.url)
    /\ (/\ route.op = "resolveAppRouteHandler"
        /\ unreadable = {}
        /\ route.file = Null)
        => \A f \in fs :
              GroupsHoldLiterals(f) =>
                ~BranchResolves(f, appDir, "route", RouteExtensions,
                                route.url)
    /\ C32_Pages

\* /blog/post: blog/post exists and holds no page, blog/[id] holds one
C32_LiteralBranchFailed ==
    /\ route.op = "resolveAppRoute"
    /\ route.url = <<"blog", "post">>
    /\ isDirectory(appDir \o <<Lit("blog"), Lit("post")>>)
    /\ route.app.found
    /\ route.app.page = appDir \o <<Lit("blog"), Dyn("id"),
                                    FileName("page", ".tsx")>>

----------------------------------------------------------------------------
(* The transform cache under interleaving *)

\* the entry pairs a hash with the code compiled from a content that has
\* this hash
EntryComplete(e) ==
    \E c \in Contents :
        /\ e.hash = simpleHash(c)
        /\ e.code = transformCode(c, e.key)

\* C33: under any interleaving of transformAndServe calls with each other
\* and with writes to the files, every entry visible in the transform cache
\* pairs a hash with the code compiled from content having that hash, and a
\* cache hit returns code compiled from content whose hash is the hash of
\* the content the request read
C33_EntriesPairHashWithItsCode ==
    /\ \A i \in 1..Len(cache) : EntryComplete(cache[i])
    /\ lastDone.outcome = "hit" =>
          \E c \in Contents :
              /\ simpleHash(c) = simpleHash(lastDone.content)
              /\ lastDone.response.body = transformCode(c, lastDone.path)

\* a hit on a file that was written while it had an entry, returned while
\* another call was suspended in the transform
C33_Witness ==
    /\ lastDone.outcome = "hit"
    /\ lastDone.reverted
    /\ InFlightCount > 0
    /\ \E i \in 1..Len(cache) : files[cache[i].key] # hist[cache[i].key].current

----------------------------------------------------------------------------
(* Terminal calls on a response that has ended *)

\* the handler can make one more call on a buffered response that has ended
EndedBuffered ==
    /\ mode = "buffered"
    /\ pc \in {"handler", "waiting", "done"}
    /\ calls < MaxCalls
    /\ res.ended

\* C34: in the buffered response, the body text passed to a terminal method
\* called after the response has ended is appended to the accumulated body,
\* whichever terminal method (end, send or json) is called and whatever was
\* written before
C34_TerminalAfterEndedAppends ==
    EndedBuffered =>
        /\ \A data \in EndArgs :
              end(St, data).res.responseBody = res.responseBody \o data
        /\ \A data \in Chunks :
              sendString(St, data).res.responseBody = res.responseBody \o data
        /\ \A o \in Objs :
              json(St, o).res.responseBody =
                  res.responseBody \o JSONStringify(o)

\* what does hold: end(data) on an ended response appends data, and no
\* terminal call on it touches the ended flag or the completion signal
C34_EndAfterEndedAppends ==
    EndedBuffered =>
        /\ \A data \in EndArgs :
              /\ end(St, data).res.responseBody = res.responseBody \o data
              /\ end(St, data).res.resolved = res.resolved
        /\ \A data \in Chunks :
              /\ sendString(St, data).res.ended
              /\ sendString(St, data).res.resolved = res.resolved
        /\ \A o \in Objs :
              /\ json(St, o).res.ended
              /\ json(St, o).res.resolved = res.resolved

\* end('a') was called on a response that had ended with a body
C34_EndedTwice ==
    /\ mode = "buffered"
    /\ res.ended
    /\ termCalls >= 2
    /\ Len(res.responseBody) >= 2

----------------------------------------------------------------------------
(* Directory listings that fail *)

\* C35: a failure of a directory listing during route resolution is treated
\* as no match at that directory: the resolver does not throw, it returns
\* what it returns on the tree in which the directory lists none of the
\* entries that only the listing gives (its route groups, dynamic and
\* catch-all entries), so the remaining branches are still tried and the
\* pathname is not found only if none of them resolves it
C35_ListingFailureIsNoMatch ==
    (route.op = "again" /\ route.repaired) => route.result = route.before

\* /blog/post with the listing of app/blog failing: blog/[id] is not seen,
\* the page is found in the route group beside blog
C35_Witness ==
    /\ route.op = "again"
    /\ route.repaired
    /\ route.resolver = "resolveAppRoute"
    /\ route.url = <<"blog", "post">>
    /\ appDir \o <<Lit("blog"), Dyn("id"), FileName("page", ".tsx")>>
           \in route.pruned
    /\ route.before.found
    /\ route.before.page = appDir \o <<Group("g"), Lit("blog"), Lit("post"),
                                       FileName("page", ".tsx")>>

\* the listing of pages/blog fails and nothing else resolves /blog/post
C35_NotFoundAnswered ==
    /\ route.op = "again"
    /\ route.repaired
    /\ route.resolver = "resolvePageFile"
    /\ route.pruned # {}
    /\ route.before = Null

----------------------------------------------------------------------------
(* The streaming response against the buffered one *)

RECURSIVE Payloads(_)
\* the onChunk payloads of a callback log, concatenated
Payloads(l) ==
    IF l = << >> THEN << >>
    ELSE (IF Head(l).type = "chunk" THEN Head(l).data ELSE << >>)
            \o Payloads(Tail(l))

\* the onStart call of a callback log
Started(l) == SelectSeq(l, LAMBDA ev : ev.type = "start")

BothEnded == mode = "streaming" /\ res.ended /\ twin.ended

\* C36: for the same sequence of handler calls the streaming and the
\* buffered response agree: the status code and the headers passed to
\* onStart are those of the buffered response, and the onChunk payloads
\* concatenated are the buffered body, also when write is followed by
\* json or send
C36_StreamingAgreesWithBuffered ==
    BothEnded =>
        /\ Len(Started(log)) = 1
        /\ Started(log)[1].statusCode = twin.statusCode
        /\ Started(log)[1].headers = twin.headers
        /\ Payloads(log) = twin.responseBody

\* the same for the body alone
C36_BodiesAgree == BothEnded => Payloads(log) = twin.responseBody

\* what does hold: handlers that only write and end, with the status and
\* the headers set before the first write, give the same response both ways
C36_AgreeOnWriteThenEnd ==
    (/\ mode = "streaming"
     /\ twin.responseBody = Payloads(log)
     /\ twin.ended = res.ended
     /\ Len(Started(log)) = 1
     /\ Started(log)[1].statusCode = twin.statusCode
     /\ Started(log)[1].headers = twin.headers
     /\ pc = "handler") =>
        \A chunk \in Chunks, data \in EndArgs :
            /\ Payloads(streamWrite(St, chunk).log)
                  = write(TwinSt, chunk).res.responseBody
            /\ Payloads(streamEnd(St, data).log)
                  = end(TwinSt, data).res.responseBody
            /\ Started(streamEnd(St, data).log)[1].statusCode
                  = end(TwinSt, data).res.statusCode

\* write('a') then json(obj): the chunks are a and the JSON text, the
\* buffered body is the JSON text alone
C36_WriteThenJson ==
    /\ BothEnded
    /\ Payloads(log) = <<"a">> \o JSONStringify("obj")
    /\ twin.responseBody = JSONStringify("obj")

----------------------------------------------------------------------------
(* Requests for the same file in flight together *)

\* C37: when two requests for the same path with the same unchanged content
\* are in flight at once, the transform function is invoked at most once
\* for that content: no two calls are suspended in transformCode for the
\* same path and the content the file still has
C37_TransformOncePerContent ==
    \A r \in Reads : files[r[1]] = r[2] => inflight[r] <= 1

\* after the first of two such calls has stored its entry, the second one
\* is still suspended in its own transform of the same content
C37_SecondTransformAfterStored ==
    \E r \in Reads :
        /\ files[r[1]] = r[2]
        /\ inflight[r] >= 1
        /\ CacheHit(MapGet(cache, r[1]), simpleHash(r[2]))

----------------------------------------------------------------------------
(* A handler that ends the response and then fails *)

\* the handler of request i ended its response and its promise rejected
\* afterwards (no timeout: the timer is only started for a response that
\* has not ended)
EndedThenRejected(i) ==
    /\ iso[i].pc = "done"
    /\ iso[i].res.ended
    /\ iso[i].fault # << >>

\* C38: when a flat API handler has ended the response and the promise it
\* returned then rejects, the request is answered with the 500 fault
\* response and not with the response the handler completed
C38_RejectionAfterEndGives500 ==
    \A i \in Requests :
        EndedThenRejected(i) =>
            /\ iso[i].response = FaultResponse(iso[i].fault)
            /\ iso[i].response.statusCode = 500
            /\ iso[i].response # toResponse(iso[i].res)

\* the handler set a status, called end() and then rejected
C38_Witness ==
    \E i \in Requests :
        /\ EndedThenRejected(i)
        /\ iso[i].made = <<"status", "end">>
        /\ iso[i].res.statusCode = 404
        /\ iso[i].response.statusCode = 500

----------------------------------------------------------------------------
(* Watchers after stop() *)

\* C39: after stop() no file change emits an hmr-update event: stop() closes
\* every watcher created by every earlier startWatching() call, however
\* many times startWatching() was called.  No step taken by a server whose
\* cleanup function is null (never started, or stopped) adds an event.
C39_NoEventAfterStop == [][watcherCleanup = 0 => emitted' = emitted]_vars

\* the same for the watchers: a server that is stopped has none left
C39_StopClosesEveryWatcher == watcherCleanup = 0 => watchers = << >>

\* stop() after a single startWatching() leaves no watcher
C39_StopAfterOneStart ==
    [][(/\ watcherCleanup # 0
        /\ watcherCleanup' = 0
        /\ \A k \in DOMAIN watchers : watchers[k].call = watcherCleanup)
          => watchers' = << >>]_vars

\* the server was stopped, a watcher of an earlier startWatching() call is
\* still registered and a change was emitted through it
C39_EmittedAfterStop ==
    /\ watcherCleanup = 0
    /\ watchers # << >>
    /\ rawEvents # << >>
    /\ rawEvents[Len(rawEvents)].receivers = 1
    /\ emitted # << >>

----------------------------------------------------------------------------
(* Resolution is a function of the filesystem *)

\* a step in which a resolver is called
Resolves == route' # route /\ route'.op \in ResolverOps \cup {"again"}

====
